---- MODULE Spec2Model ----
(***************************************************************************)
(* A model of matador's per-structure calculation driver                   *)
(* (matador/compute/compute.py, ComputeTask) and of the batch claim step   *)
(* of run3 (src/run3.py, BatchRun.perform_new_calculations).               *)
(*                                                                         *)
(* The specifications share the variables below:                           *)
(*   SpecSched  the schedule construction of _setup_relaxation, as a pure  *)
(*              function applied to bounded inputs;                        *)
(*   Spec       one ComputeTask run in castep mode: pre-flight, schedule   *)
(*              construction, the relax loop and every exit path;          *)
(*   SpecWall   the same run on every walltime, polling and compute_dir    *)
(*              configuration within the bounds;                           *)
(*   SpecMem    the pre-flight of run_castep with the memory check, on     *)
(*              every dryrun report within the bounds;                     *)
(*   SpecBatch  W workers running perform_new_calculations on one folder;  *)
(*   SpecConv   the convergence sweep of run_convergence_tests;            *)
(*   SpecOwn    the file operations of one driver beside another seed;     *)
(*   SpecArgv   parse_executable on bounded executable strings;            *)
(*   SpecMpi    run_command with the selection of the MPI library;         *)
(*   SpecTest   the self-test of the executable, test_exec;                *)
(*   SpecScan   the error classifier, _catch_castep_errors;                *)
(*   SpecLive   relax under fairness, every launched child exiting;        *)
(*   SpecPoll   relax with the process clock and the output file followed  *)
(*              through the poll loop;                                     *)
(*   SpecDoc    the construction of calc_doc in run_castep;                *)
(*   SpecKeys   the merges into calc_doc in the steps of relax;            *)
(*   SpecDir    remove_compute_dir_if_finished called twice;               *)
(*   SpecSnap   cp_to_input and the contents of input/;                    *)
(*   SpecGeneric  the generic mode, run_generic.                           *)
(***************************************************************************)
EXTENDS Integers, Sequences, FiniteSets, TLC

(***************************************************************************)
(* Bounds of the explored inputs.                                          *)
(***************************************************************************)
MaxRough == 2
MaxRoughIter == 2
MaxFineIter == 3
MaxGeomMaxIter == 6
MaxErrFiles == 1
MaxErrLines == 2
NumWorkers == 2
MaxWalltime == 6
MaxPolltime == 2
MaxStartElapsed == 2
MaxMem == 3
MaxCores == 2
MaxConv == 3
MaxTemplateLen == 4
MaxNodes == 2
MaxTestCores == 16
MaxScanFiles == 2
MaxProcPolls == 4
MaxDocKeys == 2
MaxMergeSteps == 2
MaxOptiKeys == 1
MaxCalcKeys == 1
MaxCleanupCalls == 2
MaxResVersions == 2
MaxSnapCalls == 2

(***************************************************************************)
(* Program constants.                                                      *)
(***************************************************************************)
\* prop_defaults: 'rough': 4, 'rough_iter': 2, 'fine_iter': 20
rough_default == 4
rough_iter_default == 2
fine_iter_default == 20
\* self._max_num_retries = 2
max_num_retries == 2
\* the rough_iter imposed when geom_method is tpsd
tpsd_rough_iter == 3
\* run_elapsed > abs(self.max_walltime - 5*self.polltime)
walltime_margin_polls == 5

VARIABLES
    \* ---- schedule construction (SpecSched, Spec) ----
    inp,                 \* the inputs of _setup_relaxation (calc_doc, res_dict, kwargs)
    setup,               \* its result: the exception raised and _geom_max_iter_list
    \* ---- one ComputeTask run (Spec) ----
    pc,                  \* position of the driver
    outcome,             \* how ComputeTask.__init__ ended
    lock,                \* <root>/<seed>.res.lock exists
    where,               \* where the seed's files are: root, completed, bad_castep
    res_optimised,       \* self.res_dict.get('optimised', False)
    ind,                 \* index into _geom_max_iter_list (1-based), 0 before the loop
    rerun,               \* local rerun of relax
    num_retries,         \* self._num_retries
    process,             \* self._process: none, running, exited, terminated
    launches,            \* the children launched: <<[ind, num_iter]>>
    remedies,            \* number of calls remedy(self.calc_doc)
    reopt,               \* keyword reopt
    walltime_set,        \* self.max_walltime is not None
    prev,                \* the step that ended last: [ind, remedied, opt,
                         \* opt_before, clean, parsed], and written: the step whose
                         \* results <seed>.res holds (0: the input structure)
    max_walltime,        \* self.max_walltime, when walltime_set
    start_time_set,      \* self.start_time is not None
    polltime,            \* self.polltime
    compute_dir,         \* self.compute_dir is not None
    write_cell,          \* calc_doc['write_cell_structure']: <seed>-out.cell is written
    mem,                 \* memcheck, maxmem, ncores, nnodes and the dryrun's report
    now,                 \* run_elapsed: time.time() - self.start_time
    artifacts,           \* where the files the run writes are: <seed>.* and <seed>-out.cell
    memfiles,            \* the <seed>_memcheck* files exist
    cwd,                 \* os.getcwd(): root or compute_dir
    cleanup_called,      \* remove_compute_dir_if_finished was called by run_castep
    self_success,        \* self.success: None, True or False
    propagated,          \* the exception that left ComputeTask.__init__, or none
    pushed,              \* number of calls self.output_queue.put(self.res_dict)
    \* ---- the poll loop with its clock (SpecPoll) ----
    proc_elapsed,        \* time.time() - proc_clock at the poll loop's test
    castep,              \* <seed>.castep in the working directory: missing,
                         \* stale (older than proc_clock) or fresh
    \* ---- batch claim step of run3 (SpecBatch) ----
    jobs,                \* the lines of jobs.txt
    res_list,            \* self.file_lists['res'], in os.walk order
    wpc,                 \* position of each worker process
    widx,                \* each worker's position in res_list
    started,             \* per seed: how many FullRelaxer objects were created for it
    orphans,             \* seeds whose claiming worker died before finishing
    seen,                \* per worker: the orphans that existed when its scan began
    reclaimed,           \* orphans started again by a later scan
    \* ---- the parts of the driver explored on their own ----
    conv,                \* run_convergence_tests: the sweep and its sub-calls
    own,                 \* the files of two seeds in root and what was done to them
    argv,                \* parse_executable: the template, the seed and the command
    mpi,                 \* set_mpi_library and run_command: the flags and the prefix
    selftest,            \* test_exec: ncores and the invocations made
    scan,                \* _catch_castep_errors: the error files and the result
    doc,                 \* run_castep: the dictionaries calc_doc is built from
    merge,               \* relax: calc_doc and the opti_dict merged into it
    cdir,                \* remove_compute_dir_if_finished: the directory and the link
    snapshot,            \* cp_to_input: the files in root and in input/
    generic              \* run_generic: the input file, the child and the moves

schedVars == <<inp, setup>>
driverVars == <<pc, outcome, lock, where, res_optimised, ind, rerun, num_retries,
                process, launches, remedies, reopt, walltime_set, prev>>
confVars == <<max_walltime, start_time_set, polltime, compute_dir, write_cell, mem>>
fileVars == <<artifacts, memfiles>>
exitVars == <<cwd, cleanup_called, self_success, propagated, pushed>>
pollVars == <<proc_elapsed, castep>>
batchVars == <<jobs, res_list, wpc, widx, started, orphans, seen, reclaimed>>
moreTools == <<doc, merge, cdir, snapshot, generic>>
toolVars == <<conv, own, argv, mpi, selftest, scan, moreTools>>
vars == <<schedVars, driverVars, confVars, now, fileVars, exitVars, batchVars,
          pollVars, toolVars>>

(***************************************************************************)
(* Schedule construction: ComputeTask._setup_relaxation, lines 1278-1313.  *)
(***************************************************************************)

\* n * [x] of Python: the empty list when n <= 0
Repeat(n, x) == [i \in 1..n |-> x]

\* math.ceil(a / b) for b > 0
Ceil(a, b) == -((-a) \div b)

RECURSIVE Sum(_)
Sum(s) == IF s = <<>> THEN 0 ELSE Head(s) + Sum(Tail(s))

\* self._max_iter after lines 1279-1283
InitialMaxIter(i) ==
    IF i.has_geom_iter THEN i.geom_max_iter - i.geom_iter ELSE i.geom_max_iter

\* self.res_dict['geom_iter'] after lines 1280-1283
GeomIter(i) == IF i.has_geom_iter THEN i.geom_iter ELSE 0

BudgetExceededAtEquality(geom_iter, geom_max_iter) == geom_iter >= geom_max_iter

\* line 1285: the structure has used up its iterations
BudgetExceeded(geom_iter, geom_max_iter) == geom_iter > geom_max_iter

\* lines 1292-1297: iterations per rough step
RoughIter(geom_method, rough_iter) ==
    IF geom_method = "tpsd" /\ rough_iter < tpsd_rough_iter
    THEN tpsd_rough_iter ELSE rough_iter

FineStepsFloor(max_iter, fine_iter) ==
    IF max_iter > 0
    THEN IF max_iter < fine_iter
         THEN Repeat(1, max_iter)
         ELSE Repeat(max_iter \div fine_iter, fine_iter)
    ELSE <<>>

\* lines 1301-1306: the fine steps for the residual max_iter
FineSteps(max_iter, fine_iter) ==
    LET num_fine_iter == Ceil(max_iter, fine_iter) IN
    IF max_iter > 0
    THEN IF max_iter < fine_iter
         THEN Repeat(1, max_iter)
         ELSE Repeat(num_fine_iter, fine_iter)
    ELSE <<>>

GeomMaxIterListNoResidual(i) ==
    LET rough_iter == RoughIter(i.geom_method, i.rough_iter)
    IN  Repeat(i.rough, rough_iter) \o FineSteps(InitialMaxIter(i), i.fine_iter)

\* lines 1298-1306: self._geom_max_iter_list
GeomMaxIterList(i) ==
    LET rough_iter == RoughIter(i.geom_method, i.rough_iter)
        max_iter == InitialMaxIter(i) - i.rough * rough_iter
    IN  Repeat(i.rough, rough_iter) \o FineSteps(max_iter, i.fine_iter)

SetupRelaxationNoEmptyCheck(i) ==
    IF BudgetExceeded(GeomIter(i), i.geom_max_iter)
    THEN [raised |-> "CalculationError", list |-> <<>>]
    ELSE [raised |-> "none", list |-> GeomMaxIterList(i)]

\* the whole of lines 1278-1313: the exception raised, if any, and the list
SetupRelaxation(i) ==
    IF BudgetExceeded(GeomIter(i), i.geom_max_iter)
    THEN [raised |-> "CalculationError", list |-> <<>>]
    ELSE IF GeomMaxIterList(i) = <<>>
         THEN [raised |-> "CriticalError", list |-> <<>>]
         ELSE [raised |-> "none", list |-> GeomMaxIterList(i)]

\* the schedule parameters of the "happy relax" scenario: the defaults of
\* prop_defaults with geom_max_iter = 100 and no iterations performed yet
HappyRelaxInput ==
    [rough |-> rough_default, rough_iter |-> rough_iter_default,
     fine_iter |-> fine_iter_default, geom_max_iter |-> 100,
     has_geom_iter |-> TRUE, geom_iter |-> 0, geom_method |-> "lbfgs"]

\* the inputs explored: every combination within the bounds, and the scenario
SchedInputs ==
    { i \in [rough : 0..MaxRough, rough_iter : 1..MaxRoughIter,
             fine_iter : 1..MaxFineIter, geom_max_iter : 0..MaxGeomMaxIter,
             has_geom_iter : BOOLEAN, geom_iter : 0..(MaxGeomMaxIter + 1),
             geom_method : {"lbfgs", "tpsd"}] :
         i.has_geom_iter \/ i.geom_iter = 0 }
    \cup {HappyRelaxInput}

NotSetUp == [raised |-> "pending", list |-> <<>>]

(***************************************************************************)
(* Error classifier: ComputeTask._catch_castep_errors, lines 1063-1093.    *)
(* An err file is [opt_err, lines]; a line is classified by the magic      *)
(* string it contains.                                                     *)
(***************************************************************************)

ErrLineKinds == {"workaround", "symmetry", "other"}

\* the for ... else over the lines of one file, lines 1080-1091:
\* whether the loop ended by break, and the remedy after it
RECURSIVE ScanLines(_, _)
ScanLines(flines, remedy) ==
    IF flines = <<>> THEN [broke |-> FALSE, remedy |-> remedy]
    ELSE IF Head(flines) = "workaround" THEN [broke |-> TRUE, remedy |-> remedy]
    ELSE IF Head(flines) = "symmetry" THEN ScanLines(Tail(flines), "symmetry")
    ELSE ScanLines(Tail(flines), remedy)

\* the loop over the globbed files, lines 1073-1091
RECURSIVE ScanFiles(_, _)
ScanFiles(files, acc) ==
    IF files = <<>> THEN acc
    ELSE IF Head(files).opt_err THEN ScanFiles(Tail(files), acc)
    ELSE LET r == ScanLines(Head(files).lines, acc.remedy) IN
         ScanFiles(Tail(files),
                   [errors_present |-> acc.errors_present \/ ~r.broke,
                    remedy |-> r.remedy])

CatchCastepErrors(returncode, files) ==
    ScanFiles(files, [errors_present |-> returncode # 0, remedy |-> "none"])

SeqsUpTo(S, n) == UNION { [1..k -> S] : k \in 0..n }

ErrFiles == [opt_err : BOOLEAN, lines : SeqsUpTo(ErrLineKinds, MaxErrLines)]

ReturnCodes == {0, 1}

\* what the classifier can return after a child has exited
ClassifierResults ==
    { CatchCastepErrors(rc, fs) : rc \in ReturnCodes, fs \in SeqsUpTo(ErrFiles, MaxErrFiles) }

(***************************************************************************)
(* File moves and finalisation.                                            *)
(***************************************************************************)

\* mv_to_bad, lines 1111-1139: the seed's files leave root for bad_castep
MvToBad(w) == IF w = "root" THEN "bad_castep" ELSE w

\* mv_to_completed, lines 1141-1191
MvToCompleted(w) == IF w = "root" THEN "completed" ELSE w

FinaliseResultBad(w, success) == MvToBad(w)

\* _finalise_result, lines 1383-1410: where the files are afterwards, given
\* success = self.res_dict.get('optimised', False)
FinaliseResult(w, success) == IF success THEN MvToCompleted(w) ELSE MvToBad(w)

\* process.terminate(): a running child is sent the signal; it goes on
\* running until it acts on it
Terminate(p) == IF p = "running" THEN "terminated" ELSE p

\* The files a run writes, by the glob patterns the code tells them apart
\* with: "dot" are <seed>.* (.res, .castep, .cell, .param, ...), "out_cell"
\* is <seed>-out.cell.  Each is absent, in root, in compute_dir, moved (to
\* completed/ or bad_castep/) or deleted.
FileKinds == {"dot", "out_cell"}

NoArtifacts == [k \in FileKinds |-> "absent"]

\* the working directory after _setup_relaxation, lines 1270-1271
Cwd(cd) == IF cd THEN "compute_dir" ELSE "root"

\* times_up, lines 1423-1427: glob('<seed>.*') of compute_dir is copied to
\* root and removed
TimesUpFiles(cd, a) ==
    [k \in FileKinds |->
        IF cd /\ k = "dot" /\ a[k] = "compute_dir" THEN "root" ELSE a[k]]

\* remove_compute_dir_if_finished, lines 1446-1474: nothing is done while a
\* .res or .castep is in compute_dir, otherwise every file of it is deleted
RemoveComputeDirIfFinished(a) ==
    IF a["dot"] = "compute_dir" THEN a
    ELSE [k \in FileKinds |-> IF a[k] = "compute_dir" THEN "deleted" ELSE a[k]]

\* mv_to_bad / mv_to_completed and tidy_up on the files written: what is in
\* the working directory is moved or deleted, what is left in root is removed
FinaliseArtifacts(a) ==
    [k \in FileKinds |-> IF a[k] \in {"root", "compute_dir"} THEN "moved" ELSE a[k]]

\* __init__ line 251: self.success = False in the handler of CalculationError
InitHandlerSuccess(kind, s) == IF kind = "CalculationError" THEN "False" ELSE s

InitHandlerReraisesFatalOnly(kind) ==
    kind \notin {"CalculationError", "MaxMemoryEstimateExceeded"}

\* __init__ lines 253, 257, 260 and 263: every handler ends with raise exc
InitHandlerReraises(kind) == TRUE

\* An exception raised inside relax's try block: the handlers of relax
\* (lines 613-628), of run_castep (387-393) and of __init__ (249-263).
\* proc is self._process when the exception is raised, res the value of
\* res_dict['optimised'] at that time, arts the files written so far.
\* _finalise_result lines 1397-1399, with an output queue configured: one
\* more self.output_queue.put(self.res_dict)
QueuePut(n) == n + 1

RaiseInRelax(kind, proc, res, arts) ==
    /\ pc' = "done"
    /\ outcome' = kind
    /\ res_optimised' = res
    /\ lock' = FALSE
    /\ process' = Terminate(proc)
    /\ where' = IF kind = "WalltimeError" THEN where           \* times_up
                ELSE IF kind = "CalculationError"               \* 627, then 252
                     THEN FinaliseResult(FinaliseResult(where, res), res)
                     ELSE FinaliseResult(where, res)            \* 627
    /\ artifacts' = IF kind = "WalltimeError"                   \* 616, then 389-392
                    THEN RemoveComputeDirIfFinished(TimesUpFiles(compute_dir, arts))
                    ELSE FinaliseArtifacts(arts)
    /\ cwd' = "root"                                            \* 389-391
    /\ cleanup_called' = (cleanup_called \/ compute_dir)        \* 389, 392
    /\ self_success' = InitHandlerSuccess(kind, self_success)
    /\ propagated' = IF InitHandlerReraises(kind) THEN kind ELSE "none"
    /\ pushed' = IF kind = "WalltimeError" THEN pushed         \* times_up
                 ELSE IF kind = "CalculationError"              \* 627, then 252
                      THEN QueuePut(QueuePut(pushed))
                      ELSE QueuePut(pushed)                     \* 627

(***************************************************************************)
(* The driver: ComputeTask.__init__, run_castep and relax.                 *)
(***************************************************************************)

\* The batch layer claims the seed before it constructs the driver: it
\* creates <root>/<seed>.res.lock (workspace coordinator, claim protocol).
ClaimSeed ==
    /\ pc = "unclaimed"
    /\ lock' = TRUE
    /\ pc' = "preflight"
    /\ UNCHANGED <<outcome, where, res_optimised, ind, rerun, num_retries, process,
                   launches, remedies, reopt, walltime_set, prev, schedVars,
                   confVars, now, fileVars, exitVars, batchVars, pollVars, toolVars>>

LogRemainingNeverRaises(mw_set, st_set) == FALSE

\* __init__ lines 224-227: with max_walltime set, the remaining time
\* max_walltime - (time.time() - start_time) is formatted for the log, which
\* raises TypeError when start_time is None
LogRemainingRaises(mw_set, st_set) == mw_set /\ ~st_set

\* __init__ lines 220-227 raising, outside the try block of line 238: the
\* constructor ends with TypeError and nothing is cleaned up.  (The test of
\* lines 489-492 for the same condition is therefore never reached.)
InitRaises ==
    /\ pc = "preflight"
    /\ LogRemainingRaises(walltime_set, start_time_set)
    /\ pc' = "done"
    /\ outcome' = "TypeError"
    /\ propagated' = "TypeError"
    /\ UNCHANGED <<cwd, cleanup_called, self_success, pushed>>
    /\ UNCHANGED <<lock, where, res_optimised, ind, rerun, num_retries, process,
                   launches, remedies, reopt, walltime_set, prev, schedVars,
                   confVars, now, fileVars, batchVars, pollVars, toolVars>>

PreflightErrors == {"CriticalError", "CalculationError", "InputError"}

InitHandlerFinalisesLocal(kind) ==
    kind \in {"CalculationError", "MaxMemoryEstimateExceeded"}

\* __init__ lines 249-263: of the exceptions of run_castep only
\* CalculationError is followed by _finalise_result
InitHandlerFinalises(kind) == kind = "CalculationError"

\* run_castep lines 303-341 raising: test_exec or the kpts_1D check
\* (CriticalError), res2dict failing (CalculationError), the verifier
\* (InputError); then the handlers of __init__, lines 249-263.
PreflightFail ==
    /\ pc = "preflight"
    /\ ~LogRemainingRaises(walltime_set, start_time_set)
    /\ \E kind \in PreflightErrors :
         /\ outcome' = kind
         /\ IF InitHandlerFinalises(kind)
            THEN /\ where' = FinaliseResult(where, FALSE) /\ lock' = FALSE
                 /\ pushed' = QueuePut(pushed)
            ELSE UNCHANGED <<where, lock, pushed>>
         /\ self_success' = InitHandlerSuccess(kind, self_success)
         /\ propagated' = IF InitHandlerReraises(kind) THEN kind ELSE "none"
    /\ pc' = "done"
    /\ UNCHANGED <<cwd, cleanup_called>>
    /\ UNCHANGED <<res_optimised, ind, rerun, num_retries, process, launches,
                   remedies, reopt, walltime_set, prev, schedVars,
                   confVars, now, fileVars, batchVars, pollVars, toolVars>>

\* run_castep lines 303-362 without error and without memcheck: relax is
\* entered
PreflightOK ==
    /\ pc = "preflight"
    /\ ~LogRemainingRaises(walltime_set, start_time_set)
    /\ ~mem.memcheck
    /\ pc' = "setup"
    /\ UNCHANGED <<outcome, lock, where, res_optimised, ind, rerun, num_retries,
                   process, launches, remedies, reopt, walltime_set, prev,
                   schedVars, confVars, now, fileVars, exitVars, batchVars, pollVars, toolVars>>

\* do_memcheck lines 981-987: estimated_mem_MB, times ncores and times
\* nnodes when these are not None (None is written 0)
MemoryEstimate(m) ==
    LET per_node == IF m.ncores # 0 THEN m.estimated_mem_MB * m.ncores
                    ELSE m.estimated_mem_MB
    IN  IF m.nnodes # 0 THEN per_node * m.nnodes ELSE per_node

\* run_castep line 350: memory_usage_estimate > 0.9 * self.maxmem, on whole
\* numbers of MB (0.9 * maxmem is exact in floating point whenever maxmem is
\* a multiple of 10 of this size)
MemcheckExceeded(estimate, maxmem) == 10 * estimate > 9 * maxmem

\* do_memcheck lines 977-979 and run_castep lines 350-352: the memcheck
\* raises MaxMemoryEstimateExceeded
MemcheckRaises(m) ==
    \/ ~m.reported
    \/ MemcheckExceeded(MemoryEstimate(m), m.maxmem)

\* run_castep lines 344-345 and do_memcheck lines 953-965: the
\* <seed>_memcheck cell and param files are written and the dryrun started
MemcheckDryrun ==
    /\ pc = "preflight"
    /\ ~LogRemainingRaises(walltime_set, start_time_set)
    /\ mem.memcheck
    /\ pc' = "dryrun"
    /\ memfiles' = TRUE
    /\ UNCHANGED <<outcome, lock, where, res_optimised, ind, rerun, num_retries,
                   process, launches, remedies, reopt, walltime_set, prev,
                   schedVars, confVars, now, artifacts, exitVars, batchVars, pollVars, toolVars>>

\* do_memcheck lines 966-987 and run_castep lines 346-352: the dryrun has
\* ended, its files are deleted, and the estimate is compared; then the
\* handler of __init__, lines 258-260
DryrunExit ==
    /\ pc = "dryrun"
    /\ memfiles' = FALSE
    /\ IF MemcheckRaises(mem)
       THEN /\ pc' = "done"
            /\ outcome' = "MaxMemoryEstimateExceeded"
            /\ IF InitHandlerFinalises("MaxMemoryEstimateExceeded")
               THEN /\ where' = FinaliseResult(where, FALSE) /\ lock' = FALSE
                    /\ pushed' = QueuePut(pushed)
               ELSE UNCHANGED <<where, lock, pushed>>
            /\ self_success' =
                   InitHandlerSuccess("MaxMemoryEstimateExceeded", self_success)
            /\ propagated' = IF InitHandlerReraises("MaxMemoryEstimateExceeded")
                              THEN "MaxMemoryEstimateExceeded" ELSE "none"
       ELSE /\ pc' = "setup"
            /\ UNCHANGED <<outcome, where, lock, self_success, propagated, pushed>>
    /\ UNCHANGED <<cwd, cleanup_called>>
    /\ UNCHANGED <<res_optimised, ind, rerun, num_retries, process, launches,
                   remedies, reopt, walltime_set, prev, schedVars, confVars,
                   now, artifacts, batchVars, pollVars, toolVars>>

\* The batch layer after MaxMemoryEstimateExceeded: the structure is skipped
\* without a move and its lock is released (error handling design,
\* MaxMemoryExceeded).
SkipStructure ==
    /\ pc = "done"
    /\ outcome = "MaxMemoryEstimateExceeded"
    /\ lock' = FALSE
    /\ pc' = "skipped"
    /\ UNCHANGED <<outcome, where, res_optimised, ind, rerun, num_retries, process,
                   launches, remedies, reopt, walltime_set, prev, schedVars,
                   confVars, now, fileVars, exitVars, batchVars, pollVars, toolVars>>

\* relax lines 465-468: _setup_relaxation, which writes a fresh <seed>.res
\* in the working directory (lines 1270-1276) before it builds the list,
\* and the handlers when it raises
RelaxSetup ==
    /\ pc = "setup"
    /\ setup' = SetupRelaxation(inp)
    /\ LET arts == [artifacts EXCEPT !["dot"] = Cwd(compute_dir)] IN
       IF setup'.raised = "none"
       THEN /\ pc' = "launch"
            /\ ind' = 1
            /\ artifacts' = arts
            /\ cwd' = Cwd(compute_dir)                          \* 1270-1271
            /\ UNCHANGED <<outcome, lock, where, res_optimised, process,
                           cleanup_called, self_success, propagated, pushed>>
       ELSE /\ RaiseInRelax(setup'.raised, process, res_optimised, arts)
            /\ UNCHANGED ind
    /\ UNCHANGED <<inp, rerun, num_retries, launches, remedies, reopt,
                   walltime_set, prev, confVars, now, memfiles, batchVars, pollVars, toolVars>>

\* relax lines 470-487: the next child is launched with num_iter
NumIter == IF reopt /\ rerun THEN inp.fine_iter ELSE setup.list[ind]

RunCommandStep ==
    /\ pc = "launch"
    /\ launches' = Append(launches, [ind |-> ind, num_iter |-> NumIter])
    /\ process' = "running"
    /\ pc' = "poll"
    /\ UNCHANGED <<outcome, lock, where, res_optimised, ind, rerun, num_retries,
                   remedies, reopt, walltime_set, prev, schedVars,
                   confVars, now, fileVars, exitVars, batchVars, toolVars>>

\* the launch where the process clock and the output file are not followed
LaunchStep == RunCommandStep /\ UNCHANGED pollVars

\* the running child writes <seed>-out.cell in the working directory when
\* write_cell_structure is set (the file relax reads at lines 590-596)
ChildWritesOutCell ==
    /\ pc = "poll"
    /\ write_cell
    /\ artifacts["out_cell"] # Cwd(compute_dir)
    /\ artifacts' = [artifacts EXCEPT !["out_cell"] = Cwd(compute_dir)]
    /\ UNCHANGED <<driverVars, schedVars, confVars, now, memfiles, exitVars, batchVars, pollVars, toolVars>>

\* relax lines 498-510: the child runs but its .castep is missing or stale
PollOutputMissing ==
    /\ pc = "poll"
    /\ RaiseInRelax("CalculationError", process, res_optimised, artifacts)
    /\ UNCHANGED <<ind, rerun, num_retries, launches, remedies, reopt,
                   walltime_set, prev, schedVars, confVars, now, memfiles,
                   batchVars, pollVars, toolVars>>

Abs(x) == IF x < 0 THEN -x ELSE x

\* relax line 516: run_elapsed > abs(self.max_walltime - 5*self.polltime)
WalltimeExceeded(run_elapsed, mw, pt) ==
    run_elapsed > Abs(mw - walltime_margin_polls * pt)

\* relax lines 512-519: the walltime is nearly used up
PollWalltime ==
    /\ pc = "poll"
    /\ walltime_set
    /\ WalltimeExceeded(now, max_walltime, polltime)
    /\ RaiseInRelax("WalltimeError", process, res_optimised, artifacts)
    /\ UNCHANGED <<ind, rerun, num_retries, launches, remedies, reopt,
                   walltime_set, prev, schedVars, confVars, now, memfiles,
                   batchVars, pollVars, toolVars>>

\* relax lines 496-521: the child is still running and no check raises;
\* the driver sleeps for polltime.  run_elapsed is only taken when
\* max_walltime is set (line 512).
Sleep ==
    /\ pc = "poll"
    /\ walltime_set => ~WalltimeExceeded(now, max_walltime, polltime)
    /\ now' = IF walltime_set THEN now + polltime ELSE now
    /\ UNCHANGED <<driverVars, schedVars, confVars, fileVars, exitVars, batchVars, toolVars>>

\* the pass of the poll loop where the process clock is not followed: the
\* tests of lines 498-510 are the action PollOutputMissing
PollSleep == Sleep /\ UNCHANGED pollVars

NextIndRetry(i, remedied) == IF remedied THEN i ELSE i + 1

\* line 470: the for loop takes the next element of the list, whatever the
\* step before did
NextInd(i, remedied) == i + 1

\* line 538: may the remedy be tried?
RetryAllowed(n) == n <= max_num_retries

\* relax lines 529-609 for one exited child: errors_present and remedy are
\* the classifier's result, parsed says that castep2dict returned a dict,
\* optimised is opti_dict['optimised'].  The result tells what was raised,
\* whether the loop was left by break, and the new rerun, res_dict
\* ['optimised'] and whether the remedy was applied.
RelaxStep(errors_present, remedy, parsed, optimised) ==
    LET last == (ind = Len(setup.list))
        \* 536-537: _update_output_files(opti_dict)
        res1 == IF errors_present /\ parsed THEN optimised ELSE res_optimised
        \* 547-548
        opt == IF parsed THEN optimised ELSE FALSE
        \* 562-564
        reset == reopt /\ rerun /\ ~opt
        rerun1 == IF reset THEN FALSE ELSE rerun
        res2 == IF reset THEN opt ELSE res1
        \* 537 and 564: was _update_output_files called?
        upd1 == errors_present /\ parsed
        upd2 == upd1 \/ reset
        none == [raised |-> "none", brk |-> FALSE, rerun |-> rerun,
                 res |-> res1, remedied |-> FALSE, updated |-> upd1]
    IN  IF errors_present /\ ~(remedy # "none" /\ RetryAllowed(num_retries))
        THEN [none EXCEPT !.raised = "CalculationError"]                \* 541
        ELSE IF ~parsed /\ remedy = "none"
        THEN [none EXCEPT !.raised = "CalculationError"]                \* 546
        ELSE IF remedy # "none"
        THEN [none EXCEPT !.remedied = TRUE]                            \* 606-609
        ELSE IF reopt /\ ~rerun1 /\ opt
        THEN [none EXCEPT !.rerun = TRUE, !.res = opt,
                          !.updated = TRUE]                             \* 568-570
        ELSE IF (~reopt \/ rerun1) /\ opt
        THEN [none EXCEPT !.brk = TRUE, !.rerun = rerun1, !.res = opt,
                          !.updated = TRUE]                             \* 573-576
        ELSE IF last
        THEN [none EXCEPT !.raised = "CalculationError", !.rerun = rerun1,
                          !.res = res2, !.updated = upd2]               \* 579-582
        ELSE [none EXCEPT !.rerun = rerun1, !.res = res2, !.updated = upd2]

ResHoldsEveryStep(updated, i, before) == i

\* the step whose results <seed>.res holds after step i: the file is only
\* rewritten by _update_output_files (lines 1368-1374)
ResHolds(updated, i, before) == IF updated THEN i ELSE before

\* relax lines 523-611: the child has exited; its output is scraped and
\* classified, and the loop goes on, ends, or raises
ChildExit ==
    /\ pc = "poll"
    /\ \E c \in ClassifierResults, parsed \in BOOLEAN, optimised \in BOOLEAN :
         /\ (~parsed => ~optimised)
         /\ LET r == RelaxStep(c.errors_present, c.remedy, parsed, optimised) IN
            /\ prev' = [ind |-> ind, remedied |-> r.remedied,
                        opt |-> parsed /\ optimised,
                        opt_before |-> prev.opt,
                        clean |-> /\ prev.clean /\ parsed
                                  /\ ~c.errors_present /\ c.remedy = "none",
                        parsed |-> parsed,
                        written |-> ResHolds(r.updated, ind, prev.written)]
            /\ rerun' = r.rerun
            /\ remedies' = IF r.remedied THEN remedies + 1 ELSE remedies
            /\ num_retries' = IF r.remedied THEN num_retries + 1 ELSE num_retries
            /\ IF r.raised # "none"
               THEN /\ RaiseInRelax(r.raised, "exited", r.res, artifacts)
                    /\ UNCHANGED ind
               ELSE IF r.brk \/ ind = Len(setup.list)
               THEN \* 611: return self._finalise_result()
                    /\ pc' = "done"
                    /\ outcome' = IF r.res THEN "success" ELSE "failed"
                    /\ where' = FinaliseResult(where, r.res)
                    /\ artifacts' = FinaliseArtifacts(artifacts)
                    /\ lock' = FALSE
                    /\ res_optimised' = r.res
                    /\ process' = "exited"
                    /\ cwd' = "root"                            \* 380-384
                    /\ cleanup_called' = (cleanup_called \/ compute_dir)
                    /\ self_success' = IF r.res THEN "True" ELSE "False"  \* 243
                    /\ pushed' = QueuePut(pushed)              \* 611
                    /\ UNCHANGED <<ind, propagated>>
               ELSE /\ pc' = "launch"
                    /\ ind' = NextInd(ind, r.remedied)
                    /\ res_optimised' = r.res
                    /\ process' = "exited"
                    /\ UNCHANGED <<outcome, where, lock, artifacts, exitVars>>
    /\ UNCHANGED <<launches, reopt, walltime_set, schedVars, confVars, now,
                   memfiles, batchVars, pollVars, toolVars>>

\* a child that was sent the signal by terminate() (times_up line 1421,
\* relax line 624) exits; nothing waits for it
ChildDies ==
    /\ process = "terminated"
    /\ process' = "killed"
    /\ UNCHANGED <<pc, outcome, lock, where, res_optimised, ind, rerun,
                   num_retries, launches, remedies, reopt, walltime_set, prev,
                   schedVars, confVars, now, fileVars, exitVars, batchVars, pollVars, toolVars>>

\* the exceptions that are not subclasses of Exception
Interrupts == {"KeyboardInterrupt", "SystemExit"}

\* 'except Exception' of relax (line 621), run_castep (line 387) and
\* __init__ (line 261): does the clause catch the exception?
CaughtAsException(kind) == kind \notin Interrupts

\* an interrupt is raised in the driver while it polls the child (relax
\* lines 496-521): no except clause of relax, run_castep or __init__
\* catches it, and the constructor is left where it stands
Interrupt ==
    /\ pc = "poll"
    /\ \E kind \in Interrupts :
         /\ ~CaughtAsException(kind)
         /\ outcome' = kind
         /\ propagated' = kind
    /\ pc' = "done"
    /\ UNCHANGED <<lock, where, res_optimised, ind, rerun, num_retries, process,
                   launches, remedies, reopt, walltime_set, prev, schedVars,
                   confVars, now, fileVars, cwd, cleanup_called, self_success,
                   pushed, batchVars, pollVars, toolVars>>

\* a part of the driver that the specification at hand does not exercise
Unused == [pc |-> "unused"]

IdleMore ==
    /\ doc = Unused /\ merge = Unused /\ cdir = Unused
    /\ snapshot = Unused /\ generic = Unused

IdleTools ==
    /\ conv = Unused /\ own = Unused /\ argv = Unused
    /\ mpi = Unused /\ selftest = Unused /\ scan = Unused
    /\ IdleMore

IdleBatch ==
    /\ jobs = <<>> /\ res_list = <<>> /\ wpc = <<>> /\ widx = <<>>
    /\ started = <<>> /\ orphans = {} /\ seen = <<>> /\ reclaimed = {}

\* the state of a driver at the given position, before any step
DriverAt(p, l) ==
    /\ pc = p /\ outcome = "none" /\ lock = l /\ where = "root"
    /\ res_optimised = FALSE /\ ind = 0 /\ rerun = FALSE /\ num_retries = 0
    /\ process = "none" /\ launches = <<>> /\ remedies = 0
    /\ prev = [ind |-> 0, remedied |-> FALSE, opt |-> FALSE,
               opt_before |-> FALSE, clean |-> TRUE, parsed |-> FALSE,
               written |-> 0]
    /\ artifacts = NoArtifacts /\ memfiles = FALSE
    /\ cwd = "root" /\ cleanup_called = FALSE
    /\ self_success = "None" /\ propagated = "none"
    /\ pushed = 0 /\ proc_elapsed = 0 /\ castep = "missing"

\* memcheck: False, the default of prop_defaults (None is written 0)
MemOff ==
    [memcheck |-> FALSE, maxmem |-> 0, reported |-> FALSE,
     estimated_mem_MB |-> 0, ncores |-> 0, nnodes |-> 0]

\* timings: (None, None), the default of prop_defaults (None is written 0);
\* the polltime plays no part in the states without max_walltime
NoWalltime ==
    /\ max_walltime = 0 /\ start_time_set = FALSE /\ polltime = 1 /\ now = 0

\* compute_dir: None, the default of prop_defaults
NoComputeDir == compute_dir = FALSE /\ write_cell = FALSE

DefaultConf == NoWalltime /\ NoComputeDir /\ mem = MemOff

(***************************************************************************)
(* SpecSched: relax entered on every input of SchedInputs, up to the       *)
(* launch of the first child.                                              *)
(***************************************************************************)

InitSched ==
    /\ inp \in SchedInputs
    /\ setup = NotSetUp
    /\ DriverAt("setup", TRUE)
    /\ reopt = FALSE /\ walltime_set = FALSE
    /\ DefaultConf
    /\ IdleBatch
    /\ IdleTools

NextSched == RelaxSetup \/ LaunchStep

SpecSched == InitSched /\ [][NextSched]_vars

(***************************************************************************)
(* Spec: one driver run, from the claim of the seed to the end of          *)
(* ComputeTask.__init__.                                                   *)
(***************************************************************************)

\* the schedule inputs the whole run is explored on: they give schedules of
\* every length from 0 to MaxRough + 2, and structures with the budget
\* unused, used up and exceeded
DriverInputs ==
    { i \in SchedInputs :
        /\ i.rough \in 0..MaxRough
        /\ i.rough_iter = 1
        /\ i.fine_iter = MaxFineIter
        /\ i.geom_method = "lbfgs"
        /\ i.geom_max_iter \in {0, MaxGeomMaxIter - 1, MaxGeomMaxIter}
        /\ IF i.has_geom_iter THEN i.geom_iter >= i.geom_max_iter ELSE TRUE }

\* the "memcheck abort" scenario: maxmem = 1000 MB, the dryrun reports
\* estimated_mem_MB = 2000
MemcheckAbortInput ==
    [memcheck |-> TRUE, maxmem |-> 1000, reported |-> TRUE,
     estimated_mem_MB |-> 2000, ncores |-> 0, nnodes |-> 0]

\* the configurations the whole run is explored on: no walltime, or a
\* walltime that leaves MaxStartElapsed seconds before the margin, with and
\* without start_time; without compute_dir, or with it and -out.cell
\* written; memcheck off, failing and passing
DriverConf ==
    /\ polltime = 1 /\ now = 0
    /\ IF walltime_set
       THEN /\ max_walltime = walltime_margin_polls + MaxStartElapsed
            /\ start_time_set \in BOOLEAN
       ELSE /\ max_walltime = 0
            /\ start_time_set = TRUE
    /\ compute_dir \in BOOLEAN
    /\ write_cell = compute_dir
    /\ mem \in {MemOff, MemcheckAbortInput,
                 [MemcheckAbortInput EXCEPT !.estimated_mem_MB = 0]}

Init ==
    /\ setup = NotSetUp
    /\ DriverAt("unclaimed", FALSE)
    /\ \/ /\ inp \in DriverInputs
          /\ reopt \in BOOLEAN
          /\ walltime_set \in BOOLEAN
          /\ DriverConf
       \/ /\ inp = HappyRelaxInput
          /\ reopt = FALSE
          /\ walltime_set = FALSE
          /\ DefaultConf
    /\ IdleBatch
    /\ IdleTools

Next ==
    \/ ClaimSeed
    \/ InitRaises
    \/ PreflightFail
    \/ PreflightOK
    \/ MemcheckDryrun
    \/ DryrunExit
    \/ SkipStructure
    \/ RelaxSetup
    \/ LaunchStep
    \/ ChildWritesOutCell
    \/ PollOutputMissing
    \/ PollWalltime
    \/ PollSleep
    \/ ChildExit
    \/ ChildDies
    \/ Interrupt

Spec == Init /\ [][Next]_vars

(***************************************************************************)
(* SpecWall: the same run on every walltime and polling configuration      *)
(* within the bounds and on the "walltime kill" scenario, with and without *)
(* compute_dir, on one schedule of three steps.                            *)
(***************************************************************************)

\* the "walltime kill" scenario: max_walltime = 60 s, polltime = 5 s,
\* start_time = now
WalltimeScenario == [max_walltime |-> 60, polltime |-> 5, now |-> 0]

\* max_walltime, polltime, and the time already elapsed since start_time
\* when the driver is constructed
WallInputs ==
    [max_walltime : 1..MaxWalltime, polltime : 1..MaxPolltime,
     now : 0..MaxStartElapsed]
    \cup {WalltimeScenario}

\* a schedule of one rough and two fine steps
WallSchedInput ==
    [rough |-> 1, rough_iter |-> 1, fine_iter |-> MaxFineIter,
     geom_max_iter |-> MaxFineIter + 2, has_geom_iter |-> FALSE,
     geom_iter |-> 0, geom_method |-> "lbfgs"]

InitWall ==
    /\ inp = WallSchedInput
    /\ setup = NotSetUp
    /\ DriverAt("unclaimed", FALSE)
    /\ reopt = FALSE
    /\ walltime_set \in BOOLEAN
    /\ start_time_set \in BOOLEAN
    /\ IF walltime_set
       THEN \E w \in WallInputs :
                /\ max_walltime = w.max_walltime
                /\ polltime = w.polltime
                /\ now = w.now
       ELSE max_walltime = 0 /\ polltime = 1 /\ now = 0
    /\ compute_dir \in BOOLEAN
    /\ write_cell \in BOOLEAN
    /\ mem = MemOff
    /\ IdleBatch
    /\ IdleTools

NextWall ==
    \/ ClaimSeed
    \/ InitRaises
    \/ PreflightFail
    \/ PreflightOK
    \/ RelaxSetup
    \/ LaunchStep
    \/ ChildWritesOutCell
    \/ PollOutputMissing
    \/ PollWalltime
    \/ PollSleep
    \/ ChildExit
    \/ ChildDies

SpecWall == InitWall /\ [][NextWall]_vars

(***************************************************************************)
(* SpecMem: the pre-flight with the memory check, on every dryrun report   *)
(* within the bounds and on the "memcheck abort" scenario, up to the       *)
(* launch of the first full child.                                         *)
(***************************************************************************)

\* maxmem in steps of 10 MB, so that 0.9 * maxmem is a whole number
MemInputs ==
    [memcheck : {TRUE}, maxmem : {10 * k : k \in 1..MaxMem}, reported : BOOLEAN,
     estimated_mem_MB : 0..(10 * MaxMem), ncores : 0..MaxCores,
     nnodes : 0..MaxCores]
    \cup {MemOff, MemcheckAbortInput}

InitMem ==
    /\ inp = WallSchedInput
    /\ setup = NotSetUp
    /\ DriverAt("unclaimed", FALSE)
    /\ reopt = FALSE /\ walltime_set = FALSE
    /\ NoWalltime /\ NoComputeDir
    /\ mem \in MemInputs
    /\ IdleBatch
    /\ IdleTools

NextMem ==
    \/ ClaimSeed
    \/ PreflightFail
    \/ PreflightOK
    \/ MemcheckDryrun
    \/ DryrunExit
    \/ SkipStructure
    \/ RelaxSetup
    \/ LaunchStep

SpecMem == InitMem /\ [][NextMem]_vars

(***************************************************************************)
(* SpecBatch: the claim step of run3, BatchRun.perform_new_calculations    *)
(* (src/run3.py lines 113-139), run by NumWorkers processes started by     *)
(* spawn (lines 98-111) on the same res list and the same jobs.txt.        *)
(* A file name is a sequence of characters; ".res" and the newline are     *)
(* single tokens.                                                          *)
(***************************************************************************)

Workers == 1..NumWorkers

\* the seeds of the folder; the name of one ends with the name of another
Seeds == { <<"a">>, <<"b", "a">>, <<"c">> }

ResFile(seed) == seed \o <<".res">>

\* line 126: what is written to jobs.txt for a res file
JobLine(res) == res \o <<"\n">>

\* Python's  x in y  on strings
IsSubstring(x, y) ==
    \E k \in 0..(Len(y) - Len(x)) : SubSeq(y, k + 1, k + Len(x)) = x

\* lines 117-123: some line of jobs.txt contains res
Running(res, flines) ==
    \E n \in 1..Len(flines) : IsSubstring(res, flines[n])

\* the orders in which os.walk can list the res files
ResLists ==
    { l \in [1..Cardinality(Seeds) -> {ResFile(s) : s \in Seeds}] :
        \A a, b \in 1..Cardinality(Seeds) : a # b => l[a] # l[b] }

InitBatch ==
    /\ jobs = <<>>
    /\ res_list \in ResLists
    /\ wpc = [w \in Workers |-> "check"]
    /\ widx = [w \in Workers |-> 1]
    /\ started = [r \in {ResFile(s) : s \in Seeds} |-> 0]
    /\ orphans = {}
    /\ seen = [w \in Workers |-> {}]
    /\ reclaimed = {}
    /\ inp = HappyRelaxInput /\ setup = NotSetUp
    /\ DriverAt("idle", FALSE)
    /\ reopt = FALSE /\ walltime_set = FALSE
    /\ DefaultConf
    /\ IdleTools

\* the for loop of line 116 moves on to the next res file, or ends
Advance(w) ==
    IF widx[w] < Len(res_list)
    THEN /\ widx' = [widx EXCEPT ![w] = widx[w] + 1]
         /\ wpc' = [wpc EXCEPT ![w] = "check"]
    ELSE /\ wpc' = [wpc EXCEPT ![w] = "done"]
         /\ UNCHANGED widx

\* lines 117-124: worker w reads jobs.txt and decides whether res is running
CheckJobs(w) ==
    /\ wpc[w] = "check"
    /\ IF Running(res_list[widx[w]], jobs)
       THEN Advance(w)
       ELSE /\ wpc' = [wpc EXCEPT ![w] = "record"]
            /\ UNCHANGED widx
    /\ UNCHANGED <<jobs, res_list, started, orphans, seen, reclaimed,
                   schedVars, driverVars, confVars, now, fileVars,
                   exitVars, pollVars, toolVars>>

\* lines 125-135: worker w appends res to jobs.txt and creates the relaxer
RecordAndStart(w) ==
    /\ wpc[w] = "record"
    /\ LET res == res_list[widx[w]] IN
       /\ jobs' = Append(jobs, JobLine(res))
       /\ started' = [started EXCEPT ![res] = started[res] + 1]
       /\ reclaimed' = IF res \in orphans THEN reclaimed \cup {res} ELSE reclaimed
    /\ wpc' = [wpc EXCEPT ![w] = "relax"]
    /\ UNCHANGED <<res_list, widx, orphans, seen, schedVars, driverVars, confVars, now, fileVars,
                   exitVars, pollVars, toolVars>>

\* line 136: the relaxer of worker w has finished with its seed
FinishRelax(w) ==
    /\ wpc[w] = "relax"
    /\ Advance(w)
    /\ UNCHANGED <<jobs, res_list, started, orphans, seen, reclaimed,
                   schedVars, driverVars, confVars, now, fileVars,
                   exitVars, pollVars, toolVars>>

\* worker w is killed (proc.terminate() of line 110, or the host dies);
\* the seed it was relaxing is left unfinished
Die(w) ==
    /\ wpc[w] \in {"check", "record", "relax"}
    /\ orphans' = IF wpc[w] = "relax" THEN orphans \cup {res_list[widx[w]]}
                  ELSE orphans
    /\ wpc' = [wpc EXCEPT ![w] = "dead"]
    /\ UNCHANGED <<jobs, res_list, widx, started, seen, reclaimed,
                   schedVars, driverVars, confVars, now, fileVars,
                   exitVars, pollVars, toolVars>>

\* run3 is started again on the folder: a new process scans the res files
\* from the first one (lines 98-107), jobs.txt being kept (lines 91-93)
Rescan(w) ==
    /\ wpc[w] \in {"dead", "done"}
    /\ wpc' = [wpc EXCEPT ![w] = "check"]
    /\ widx' = [widx EXCEPT ![w] = 1]
    /\ seen' = [seen EXCEPT ![w] = orphans]
    /\ UNCHANGED <<jobs, res_list, started, orphans, reclaimed,
                   schedVars, driverVars, confVars, now, fileVars,
                   exitVars, pollVars, toolVars>>

NextBatch ==
    \E w \in Workers :
        \/ CheckJobs(w)
        \/ RecordAndStart(w)
        \/ FinishRelax(w)
        \/ Die(w)
        \/ Rescan(w)

SpecBatch == InitBatch /\ [][NextBatch]_vars

(***************************************************************************)
(* SpecConv: run_convergence_tests (lines 739-779) on every pair of        *)
(* conv_cutoff and conv_kpt lists of up to MaxConv values; a value is      *)
(* written TRUE when the executable succeeds on it and FALSE when not.     *)
(***************************************************************************)

\* the driver and the batch step stand still while a part is explored
IdleRun ==
    /\ inp = HappyRelaxInput /\ setup = NotSetUp
    /\ DriverAt("idle", FALSE)
    /\ reopt = FALSE /\ walltime_set = FALSE
    /\ DefaultConf
    /\ IdleBatch

IdleDriver == IdleRun /\ IdleMore

runVars == <<schedVars, driverVars, confVars, now, fileVars, exitVars, batchVars,
            pollVars>>
restVars == <<runVars, moreTools>>
firstTools == <<conv, own, argv, mpi, selftest, scan>>

\* the parts of the first group stand still
IdleFirst ==
    /\ conv = Unused /\ own = Unused /\ argv = Unused
    /\ mpi = Unused /\ selftest = Unused /\ scan = Unused


\* scf, lines 651-689, called with keep=False and intermediate=False: when
\* the run is clean the files go to paths['completed_dir'] and True is
\* returned; otherwise the handler moves the files to bad_castep/ and
\* raises the CalculationError again
Scf(ok, completed_dir) ==
    IF ok THEN [raised |-> "none", moved |-> completed_dir, ret |-> TRUE]
    ELSE [raised |-> "CalculationError", moved |-> "bad_castep", ret |-> FALSE]

\* any(successes), line 779
RECURSIVE AnyOf(_)
AnyOf(s) == IF s = <<>> THEN FALSE ELSE (Head(s) \/ AnyOf(Tail(s)))

\* the values of the sweep in the order of the two loops, lines 757 and 770
ConvValues(c) == c.cutoff \o c.kpt

\* self.paths['completed_dir'] for the k-th value, lines 760 and 775
ConvCompletedDir(c, k) ==
    IF k <= Len(c.cutoff) THEN "completed_cutoff" ELSE "completed_kpts"

\* the "convergence sweep" scenario: cutoffs [400, 500, 600], the executable
\* fails for 400 and succeeds for 500 and 600
ConvScenario == [cutoff |-> <<FALSE, TRUE, TRUE>>, kpt |-> <<>>]

InitConv ==
    /\ \E cut \in SeqsUpTo(BOOLEAN, MaxConv), kpt \in SeqsUpTo(BOOLEAN, MaxConv) :
         conv = [pc |-> "sweep", cutoff |-> cut, kpt |-> kpt, successes |-> <<>>,
                 moved |-> <<>>, result |-> FALSE, raised |-> "none"]
    /\ own = Unused /\ argv = Unused /\ mpi = Unused
    /\ selftest = Unused /\ scan = Unused
    /\ IdleDriver

\* one pass of the loops of lines 757-764 and 770-778: the sub-call for the
\* next value; an exception of scf leaves run_convergence_tests, which has
\* no handler
ConvScf ==
    /\ conv.pc = "sweep"
    /\ Len(conv.moved) < Len(ConvValues(conv))
    /\ LET k == Len(conv.moved) + 1
           r == Scf(ConvValues(conv)[k], ConvCompletedDir(conv, k))
       IN  conv' = IF r.raised = "none"
                   THEN [conv EXCEPT !.successes = Append(@, r.ret),
                                     !.moved = Append(@, r.moved)]
                   ELSE [conv EXCEPT !.moved = Append(@, r.moved),
                                     !.raised = r.raised,
                                     !.pc = "raised"]
    /\ UNCHANGED <<restVars, own, argv, mpi, selftest, scan>>

\* line 779: return any(successes)
ConvReturn ==
    /\ conv.pc = "sweep"
    /\ Len(conv.moved) = Len(ConvValues(conv))
    /\ conv' = [conv EXCEPT !.pc = "returned", !.result = AnyOf(conv.successes)]
    /\ UNCHANGED <<restVars, own, argv, mpi, selftest, scan>>

NextConv == ConvScf \/ ConvReturn

SpecConv == InitConv /\ [][NextConv]_vars

(***************************************************************************)
(* SpecOwn: the file operations of the driver for one seed, in a root that *)
(* also holds files of another seed.  A file name is a sequence of pieces; *)
(* the pieces are cut where the glob patterns and the endswith tests of    *)
(* the code cut them.                                                      *)
(***************************************************************************)

ResExt == <<".", "res">>
LockExt == <<".", "res", ".", "lock">>
CastepExt == <<".", "castep">>
ErrExt == <<".", "0001", ".", "err">>
OptErrExt == <<".", "opt_", "err">>
BakExt == <<".", "res", "_bak">>
OutCellExt == <<"-out", ".", "cell">>

\* the files a run of castep for a seed reads and leaves behind
SeedExts == {ResExt, LockExt, CastepExt, ErrExt, OptErrExt, BakExt, OutCellExt}

FilesOf(seed) == { seed \o e : e \in SeedExts }

\* str.endswith
EndsWith(name, sfx) ==
    /\ Len(name) >= Len(sfx)
    /\ SubSeq(name, Len(name) - Len(sfx) + 1, Len(name)) = sfx

\* glob.glob(prefix + '*' + suffix) on the files fs of the directory
Glob(prefix, suffix, fs) ==
    { f \in fs : /\ Len(f) >= Len(prefix) + Len(suffix)
                 /\ SubSeq(f, 1, Len(prefix)) = prefix
                 /\ EndsWith(f, suffix) }

\* the named files that exist (os.path.isfile)
Existing(seed, exts, fs) == { seed \o e : e \in exts } \cap fs

\* _catch_castep_errors lines 1063-1076: the files that are opened
ErrFilesRead(seed, fs) ==
    { f \in Glob(seed, <<"err">>, fs) : ~EndsWith(f, <<"opt_", "err">>) }

\* cp_to_input lines 1210-1222: the files that are copied; every file of
\* the model is a regular file, so with glob_files line 1216 copies none
CpToInput(seed, glob_files, fs) ==
    IF glob_files
    THEN { f \in Glob(seed, <<>>, fs) : ~EndsWith(f, <<".", "lock">>) /\ FALSE }
    ELSE Existing(seed, {ResExt}, fs)

\* mv_to_bad lines 1124-1137: the files moved and the files removed
MvToBadFiles(seed, fs) ==
    Glob(seed \o <<".">>, <<>>, fs) \cup Glob(seed \o OutCellExt, <<>>, fs)
    \cup Existing(seed, {ResExt, LockExt, CastepExt, OutCellExt}, fs)

\* mv_to_completed lines 1162-1191: the files removed first, then those
\* moved (conv_cutoff and conv_kpt unset, kpts_1D and write_formatted_density
\* off), then those deleted as "whatever is left"
MvToCompletedFiles(seed, keep, fs) ==
    LET removed == Glob(seed, <<"_bak">>, fs) \cup Glob(seed, <<".", "lock">>, fs)
        f1 == fs \ removed
        moved == IF keep
                 THEN Glob(seed \o <<".">>, <<>>, f1)
                      \cup Glob(seed \o OutCellExt, <<>>, f1)
                 ELSE Existing(seed, {CastepExt, ResExt, OutCellExt}, f1)
        f2 == f1 \ moved
        left == Glob(seed \o <<".">>, <<>>, f2) \cup Glob(seed \o <<"-out", ".">>, <<>>, f2)
    IN  removed \cup moved \cup left

\* tidy_up lines 1352-1357: the files deleted
TidyUpFiles(seed, fs) ==
    { f \in Glob(seed \o <<".">>, <<>>, fs) :
        ~(EndsWith(f, ResExt) \/ EndsWith(f, CastepExt)) }

\* times_up lines 1423-1430: with compute_dir the files copied back and
\* removed from it, and the lock removed from root
TimesUpCopied(seed, cd, fs) ==
    IF cd THEN Glob(seed \o <<".">>, <<>>, fs) ELSE {}

\* the seed of the driver, and the seeds another structure of the same root
\* may have: one that shares no prefix with it and one that extends it
OwnSeed == <<"a">>

OtherSeeds == {<<"b">>, <<"a", "b">>}

InitOwn ==
    /\ \E other \in OtherSeeds : \E fs \in SUBSET FilesOf(other) :
         own = [pc |-> "run", seed |-> OwnSeed, other |-> other,
                files |-> FilesOf(OwnSeed) \cup fs, touched |-> {}]
    /\ conv = Unused /\ argv = Unused /\ mpi = Unused
    /\ selftest = Unused /\ scan = Unused
    /\ IdleDriver

\* _catch_castep_errors: the error files are read, and those with the
\* work-around line (any of them) are deleted
OwnErrorScan ==
    /\ own.pc = "run"
    /\ LET read == ErrFilesRead(own.seed, own.files) IN
       \E workaround \in SUBSET read :
         own' = [own EXCEPT !.files = @ \ workaround, !.touched = @ \cup read]
    /\ UNCHANGED <<restVars, conv, argv, mpi, selftest, scan>>

OwnCpToInput ==
    /\ own.pc = "run"
    /\ \E glob_files \in BOOLEAN :
         own' = [own EXCEPT
                   !.touched = @ \cup CpToInput(own.seed, glob_files, own.files)]
    /\ UNCHANGED <<restVars, conv, argv, mpi, selftest, scan>>

OwnMvToBad ==
    /\ own.pc = "run"
    /\ LET gone == MvToBadFiles(own.seed, own.files) IN
       own' = [own EXCEPT !.files = @ \ gone, !.touched = @ \cup gone]
    /\ UNCHANGED <<restVars, conv, argv, mpi, selftest, scan>>

OwnMvToCompleted ==
    /\ own.pc = "run"
    /\ \E keep \in BOOLEAN :
         LET gone == MvToCompletedFiles(own.seed, keep, own.files) IN
         own' = [own EXCEPT !.files = @ \ gone, !.touched = @ \cup gone]
    /\ UNCHANGED <<restVars, conv, argv, mpi, selftest, scan>>

OwnTidyUp ==
    /\ own.pc = "run"
    /\ LET gone == TidyUpFiles(own.seed, own.files) IN
       own' = [own EXCEPT !.files = @ \ gone, !.touched = @ \cup gone]
    /\ UNCHANGED <<restVars, conv, argv, mpi, selftest, scan>>

OwnTimesUp ==
    /\ own.pc = "run"
    /\ \E cd \in BOOLEAN :
         LET copied == TimesUpCopied(own.seed, cd, own.files)
             unlocked == Existing(own.seed, {LockExt}, own.files)
         IN  own' = [own EXCEPT !.files = @ \ unlocked,
                                !.touched = @ \cup copied \cup unlocked]
    /\ UNCHANGED <<restVars, conv, argv, mpi, selftest, scan>>

NextOwn ==
    \/ OwnErrorScan
    \/ OwnCpToInput
    \/ OwnMvToBad
    \/ OwnMvToCompleted
    \/ OwnTidyUp
    \/ OwnTimesUp

SpecOwn == InitOwn /\ [][NextOwn]_vars

(***************************************************************************)
(* SpecArgv: parse_executable (lines 781-818) on every executable string   *)
(* of up to MaxTemplateLen pieces.  A string is a sequence of pieces: the  *)
(* placeholder "$seed", a blank, or another character.                     *)
(***************************************************************************)

TemplatePieces == {"$seed", " ", "x"}

\* str.split(), line 800: the maximal runs without a blank; cur is the run
\* being read and acc the runs read
RECURSIVE SplitAcc(_, _, _)
SplitAcc(str, cur, acc) ==
    IF str = <<>> THEN (IF cur = <<>> THEN acc ELSE Append(acc, cur))
    ELSE IF Head(str) = " "
    THEN SplitAcc(Tail(str), <<>>, IF cur = <<>> THEN acc ELSE Append(acc, cur))
    ELSE SplitAcc(Tail(str), Append(cur, Head(str)), acc)

Split(str) == SplitAcc(str, <<>>, <<>>)

\* '$seed' in item, line 804
HasSeed(item) == \E k \in DOMAIN item : item[k] = "$seed"

\* item.replace('$seed', seed), line 805
RECURSIVE ReplaceSeed(_, _)
ReplaceSeed(item, seed) ==
    IF item = <<>> THEN <<>>
    ELSE IF Head(item) = "$seed" THEN seed \o ReplaceSeed(Tail(item), seed)
    ELSE <<Head(item)>> \o ReplaceSeed(Tail(item), seed)

\* the loop of lines 803-807 on the items left: [command, found_seed]
RECURSIVE ParseItems(_, _, _, _)
ParseItems(items, seed, command, found_seed) ==
    IF items = <<>> THEN [command |-> command, found_seed |-> found_seed]
    ELSE IF HasSeed(Head(items))
    THEN ParseItems(Tail(items), seed,
                    Append(command, ReplaceSeed(Head(items), seed)), TRUE)
    ELSE ParseItems(Tail(items), seed, Append(command, Head(items)), found_seed)

ParseExecutableAppendsAlways(executable, seed) ==
    Append(ParseItems(Split(executable), seed, <<>>, FALSE).command, seed)

\* parse_executable, lines 799-809
ParseExecutable(executable, seed) ==
    LET r == ParseItems(Split(executable), seed, <<>>, FALSE) IN
    IF r.found_seed THEN r.command ELSE Append(r.command, seed)

\* seeds of one and of two characters
ArgvSeeds == {<<"t">>, <<"t", "u">>}

InitArgv ==
    /\ \E t \in SeqsUpTo(TemplatePieces, MaxTemplateLen), s \in ArgvSeeds :
         argv = [pc |-> "parse", executable |-> t, seed |-> s, command |-> <<>>]
    /\ conv = Unused /\ own = Unused /\ mpi = Unused
    /\ selftest = Unused /\ scan = Unused
    /\ IdleDriver

ParseExec ==
    /\ argv.pc = "parse"
    /\ argv' = [argv EXCEPT !.pc = "parsed",
                            !.command = ParseExecutable(argv.executable, argv.seed)]
    /\ UNCHANGED <<restVars, conv, own, mpi, selftest, scan>>

NextArgv == ParseExec

SpecArgv == InitArgv /\ [][NextArgv]_vars

(***************************************************************************)
(* SpecMpi: run_command (lines 989-1031) with the mpi_library property     *)
(* (866-872), set_mpi_library (874-904) and detect_mpi (906-938), on every *)
(* combination of the library flags, of what 'mpirun --version' and        *)
(* 'aprun --version' print, and of nnodes, ncores and node.                *)
(***************************************************************************)

\* what a version command prints, by the magic string in it, or that it
\* exits with an error
VersionOutputs == {"fail", "Intel", "aprun", "Open MPI", "other"}

\* detect_mpi lines 915-925: the version string, or CriticalError when
\* neither command runs; lines 926-935: the library named by the string
DetectMpi(mpirun, aprun) ==
    LET mpi_version_string == IF mpirun # "fail" THEN mpirun ELSE aprun IN
    IF mpi_version_string = "fail"
    THEN [raised |-> "CriticalError", version |-> "none"]
    ELSE [raised |-> "none",
          version |-> IF mpi_version_string = "Intel" THEN "intel"
                      ELSE IF mpi_version_string = "aprun" THEN "archer"
                      ELSE "default"]

\* sum([self.archer, self.intel, self.slurm]), line 879
NumFlags(m) ==
    (IF m.archer THEN 1 ELSE 0) + (IF m.intel THEN 1 ELSE 0)
    + (IF m.slurm THEN 1 ELSE 0)

\* set_mpi_library, lines 878-904: the exception raised, the library
\* returned, and the number of calls of detect_mpi
SetMpiLibrary(m) ==
    LET guessed == DetectMpi(m.mpirun, m.aprun)                      \* 878
        err == [raised |-> "CriticalError", library |-> "unset", detect_calls |-> 1]
        ret(lib) == [raised |-> "none", library |-> lib, detect_calls |-> 1]
    IN  IF guessed.raised # "none" THEN err
        ELSE IF NumFlags(m) > 1 THEN err                             \* 879-882
        ELSE IF m.archer
        THEN (IF guessed.version # "archer" THEN err ELSE ret("archer"))
        ELSE IF m.intel
        THEN (IF guessed.version # "intel" THEN err ELSE ret("intel"))
        ELSE IF m.slurm THEN ret("slurm")
        ELSE ret(guessed.version)

\* does run_command read self.mpi_library?  Lines 1001-1018: not for one
\* core without a remote node, and not with a remote node
ReadsMpiLibrary(m) ==
    IF m.nnodes \in {0, 1}
    THEN ~m.node /\ m.ncores # 1
    ELSE TRUE

\* run_command lines 1001-1031: what is put before the parsed command
\* (nnodes None is written 0; node says that self.node is not None)
CommandPrefix(m, library) ==
    LET cores == ToString(m.ncores)
        total == ToString(m.ncores * m.nnodes)
        nodes == ToString(m.nnodes)
    IN  IF m.nnodes \in {0, 1}
        THEN IF ~m.node
             THEN IF m.ncores = 1 THEN <<"nice", "-n", "15">>
                  ELSE IF library = "archer" THEN <<"aprun", "-n", cores>>
                  ELSE IF library = "slurm"
                  THEN <<"srun", "--exclusive", "-N", "1", "-n", cores>>
                  ELSE IF library = "intel" THEN <<"mpirun", "-n", cores>>
                  ELSE <<>>
             ELSE <<"ssh", "node", "cd", "cwd;", "mpirun", "-n", cores>>
        ELSE IF library = "archer"
             THEN <<"aprun", "-n", total, "-N", cores, "-S", "12", "-d", "1">>
             ELSE IF library = "slurm"
             THEN <<"srun", "--exclusive", "-N", nodes, "-n", total>>
             ELSE IF library = "intel"
             THEN <<"mpirun", "-n", total, "-ppn", cores>>
             ELSE <<"mpirun", "-n", total, "-npernode", cores>>

InitMpi ==
    /\ \E fl \in [archer : BOOLEAN, intel : BOOLEAN, slurm : BOOLEAN],
          mpirun \in VersionOutputs, aprun \in VersionOutputs,
          nnodes \in 0..MaxNodes, ncores \in 1..MaxCores, node \in BOOLEAN :
         mpi = [pc |-> "start", archer |-> fl.archer, intel |-> fl.intel,
                slurm |-> fl.slurm, mpirun |-> mpirun, aprun |-> aprun,
                nnodes |-> nnodes, ncores |-> ncores, node |-> node,
                library |-> "unset", detect_calls |-> 0, raised |-> "none",
                prefix |-> <<>>]
    /\ conv = Unused /\ own = Unused /\ argv = Unused
    /\ selftest = Unused /\ scan = Unused
    /\ IdleDriver

\* run_command up to the launch of the process: the library is selected
\* when the branch taken reads it, and the prefix is put before the command
RunCommand ==
    /\ mpi.pc = "start"
    /\ IF ReadsMpiLibrary(mpi)
       THEN LET r == SetMpiLibrary(mpi) IN
            IF r.raised # "none"
            THEN mpi' = [mpi EXCEPT !.pc = "raised", !.raised = r.raised,
                                    !.detect_calls = r.detect_calls]
            ELSE mpi' = [mpi EXCEPT !.pc = "launched", !.library = r.library,
                                    !.detect_calls = r.detect_calls,
                                    !.prefix = CommandPrefix(mpi, r.library)]
       ELSE mpi' = [mpi EXCEPT !.pc = "launched",
                               !.prefix = CommandPrefix(mpi, mpi.library)]
    /\ UNCHANGED <<restVars, conv, own, argv, selftest, scan>>

NextMpi == RunCommand

SpecMpi == InitMpi /\ [][NextMpi]_vars

(***************************************************************************)
(* SpecTest: test_exec (lines 820-864) for every ncores up to MaxTestCores *)
(* and every behaviour of the executable at each invocation.               *)
(***************************************************************************)

\* what one run of '<executable> --version' does: it is not found, prints
\* 'CASTEP version', fails with 'not enough slots' on stderr, or prints
\* neither
ExecBehaviours == {"notfound", "version", "slots", "other"}

CanHalveFromOne(ncores) == ncores >= 1

\* line 848: if self.ncores >= 2
CanHalve(ncores) == ncores >= 2

\* line 849: int(self.ncores/2)
HalveCores(ncores) == ncores \div 2

InitTest ==
    /\ \E n \in 1..MaxTestCores :
         selftest = [pc |-> "test", ncores0 |-> n, ncores |-> n,
                     invocations |-> 0, last |-> "none", raised |-> "none"]
    /\ conv = Unused /\ own = Unused /\ argv = Unused
    /\ mpi = Unused /\ scan = Unused
    /\ IdleDriver

\* one invocation of test_exec: the executable is run and its output
\* looked at; on 'not enough slots' with cores left to halve, test_exec
\* calls itself, which is the next invocation
TestExec ==
    /\ selftest.pc = "test"
    /\ \E b \in ExecBehaviours :
         LET t == [selftest EXCEPT !.invocations = @ + 1, !.last = b]
             critical == [t EXCEPT !.pc = "raised", !.raised = "CriticalError"]
         IN  selftest' =
               IF b = "notfound" THEN critical                      \* 832-836
               ELSE IF b = "version" THEN [t EXCEPT !.pc = "passed"]
               ELSE IF b = "slots"
               THEN IF CanHalve(selftest.ncores)                     \* 848-852
                    THEN [t EXCEPT !.ncores = HalveCores(selftest.ncores)]
                    ELSE critical
               ELSE critical                                         \* 854-860
    /\ UNCHANGED <<restVars, conv, own, argv, mpi, scan>>

NextTest == TestExec

SpecTest == InitTest /\ [][NextTest]_vars

(***************************************************************************)
(* SpecScan: _catch_castep_errors (lines 1063-1093) on every return code   *)
(* and every list of up to MaxScanFiles error files.                       *)
(***************************************************************************)

\* lines 1080-1084: the files removed, by their place in the glob's list
DeletedErrFiles(files) ==
    { k \in DOMAIN files :
        ~files[k].opt_err /\ ScanLines(files[k].lines, "none").broke }

\* lines 1088-1090: the files whose lines are added to error_str
ReportedErrFiles(files) ==
    { k \in DOMAIN files :
        ~files[k].opt_err /\ ~ScanLines(files[k].lines, "none").broke }

InitScan ==
    /\ \E rc \in ReturnCodes, fs \in SeqsUpTo(ErrFiles, MaxScanFiles) :
         scan = [pc |-> "scan", returncode |-> rc, files |-> fs,
                 errors_present |-> FALSE, remedy |-> "none",
                 reported |-> {}, deleted |-> {}]
    /\ conv = Unused /\ own = Unused /\ argv = Unused
    /\ mpi = Unused /\ selftest = Unused
    /\ IdleDriver

CatchErrors ==
    /\ scan.pc = "scan"
    /\ LET r == CatchCastepErrors(scan.returncode, scan.files) IN
       scan' = [scan EXCEPT !.pc = "scanned",
                            !.errors_present = r.errors_present,
                            !.remedy = r.remedy,
                            !.reported = ReportedErrFiles(scan.files),
                            !.deleted = DeletedErrFiles(scan.files)]
    /\ UNCHANGED <<restVars, conv, own, argv, mpi, selftest>>

NextScan == CatchErrors

SpecScan == InitScan /\ [][NextScan]_vars

(***************************************************************************)
(* SpecLive: relax from its entry to its end, on every outcome of every    *)
(* child, when each launched child exits.  The driver's own steps and the  *)
(* exit of a launched child are weakly fair: the for loop of line 470 and  *)
(* the poll loop of line 496 go on as long as nothing stops them, and the  *)
(* exit of the child is the hypothesis under which the end is claimed.     *)
(***************************************************************************)

InitLive ==
    /\ inp \in DriverInputs \cup {HappyRelaxInput}
    /\ setup = NotSetUp
    /\ DriverAt("setup", TRUE)
    /\ reopt \in BOOLEAN /\ walltime_set = FALSE
    /\ DefaultConf
    /\ IdleBatch
    /\ IdleTools

NextLive == RelaxSetup \/ LaunchStep \/ ChildExit

SpecLive ==
    /\ InitLive /\ [][NextLive]_vars
    /\ WF_vars(RelaxSetup \/ LaunchStep)
    /\ WF_vars(ChildExit)

(***************************************************************************)
(* SpecPoll: relax with the process clock and the child's output file      *)
(* followed through the poll loop of lines 496-521, with and without a     *)
(* walltime.  In the other specifications the reading of the clock and the *)
(* state of the file are inputs of the poll, and PollOutputMissing may     *)
(* fire at any pass.                                                       *)
(***************************************************************************)

\* lines 486-487: the child is launched and proc_clock is taken; a
\* <seed>.castep that is there is now older than the launch
LaunchStepTimed ==
    /\ RunCommandStep
    /\ proc_elapsed' = 0
    /\ castep' = IF castep = "missing" THEN "missing" ELSE "stale"

\* the running child creates <seed>.castep, or writes to the one it found
ChildWritesCastep ==
    /\ pc = "poll"
    /\ castep # "fresh"
    /\ castep' = "fresh"
    /\ UNCHANGED <<driverVars, schedVars, confVars, now, fileVars, exitVars,
                   batchVars, proc_elapsed, toolVars>>

\* relax lines 498-510: after more than 3 polltimes the file does not exist
\* (line 501) or is older than the launch (line 506)
OutputCheckRaises(elapsed, pt, out) ==
    /\ elapsed > 3 * pt
    /\ out \in {"missing", "stale"}

\* lines 497-510 with the clock followed
PollOutputMissingTimed ==
    /\ OutputCheckRaises(proc_elapsed, polltime, castep)
    /\ PollOutputMissing

\* lines 512-519, reached when the tests of lines 498-510 have not raised
PollWalltimeTimed ==
    /\ ~OutputCheckRaises(proc_elapsed, polltime, castep)
    /\ PollWalltime

\* line 521, reached when nothing has raised: both clocks advance by the
\* polltime (the process clock is followed up to MaxProcPolls polltimes)
PollSleepTimed ==
    /\ ~OutputCheckRaises(proc_elapsed, polltime, castep)
    /\ Sleep
    /\ proc_elapsed' = IF proc_elapsed < MaxProcPolls * polltime
                       THEN proc_elapsed + polltime ELSE proc_elapsed
    /\ UNCHANGED castep

\* lines 523-611; castep2dict (line 525) returns no dict when the file is
\* missing
ChildExitTimed ==
    /\ ChildExit
    /\ castep = "missing" => ~prev'.parsed

InitPoll ==
    /\ inp = WallSchedInput
    /\ setup = NotSetUp
    /\ DriverAt("setup", TRUE)
    /\ reopt = FALSE
    /\ walltime_set \in BOOLEAN
    /\ start_time_set = walltime_set
    /\ IF walltime_set
       THEN \E w \in WallInputs :
                /\ max_walltime = w.max_walltime
                /\ polltime = w.polltime
                /\ now = w.now
       ELSE max_walltime = 0 /\ polltime = 1 /\ now = 0
    /\ NoComputeDir
    /\ mem = MemOff
    /\ IdleBatch
    /\ IdleTools

NextPoll ==
    \/ RelaxSetup
    \/ LaunchStepTimed
    \/ ChildWritesCastep
    \/ PollOutputMissingTimed
    \/ PollWalltimeTimed
    \/ PollSleepTimed
    \/ ChildExitTimed
    \/ ChildDies

SpecPoll == InitPoll /\ [][NextPoll]_vars

(***************************************************************************)
(* SpecDoc: the construction of calc_doc in run_castep (lines 328-338) on  *)
(* every structure document, cell-options input and param-options input    *)
(* within the bounds.  A dictionary is a function from its keys; the value *)
(* of a key is written as the input it was read from.                      *)
(***************************************************************************)

\* line 330
BadKeys ==
    {"atom_types", "positions_frac", "positions_abs", "lattice_cart",
     "lattice_abc"}

\* the keys of the dictionaries: the structure keys, a cell option and a
\* param option
DocKeys == BadKeys \cup {"kpoints_mp_spacing", "cut_off_energy"}

\* dict.update, lines 332-333
DictUpdate(d, e) ==
    [k \in DOMAIN d \cup DOMAIN e |-> IF k \in DOMAIN e THEN e[k] ELSE d[k]]

FilterNothing(cell) == cell

\* line 331: the dictionary comprehension that drops the bad keys
FilterBadKeys(cell) == [k \in DOMAIN cell \ BadKeys |-> cell[k]]

\* the dictionaries with the given keys, every value read from origin
DictsFrom(keysets, origin) == UNION {[ks -> {origin}] : ks \in keysets}

InitDoc ==
    /\ \E res \in DictsFrom({ks \in SUBSET BadKeys :
                                Cardinality(BadKeys \ ks) <= 1}, "res"),
          cell \in DictsFrom({ks \in SUBSET DocKeys :
                                Cardinality(ks) <= MaxDocKeys}, "cell"),
          param \in DictsFrom({ks \in SUBSET DocKeys :
                                Cardinality(ks) <= MaxDocKeys}, "param") :
         doc = [pc |-> "input", res_dict |-> res, cell_in |-> cell,
                cell_dict |-> cell, param_dict |-> param, calc_doc |-> <<>>]
    /\ merge = Unused /\ cdir = Unused /\ snapshot = Unused /\ generic = Unused
    /\ IdleFirst
    /\ IdleRun

\* run_castep lines 328-338
BuildCalcDoc ==
    /\ doc.pc = "input"
    /\ LET filtered == FilterBadKeys(doc.cell_dict)
           calc == DictUpdate(DictUpdate(doc.res_dict, filtered), doc.param_dict)
       IN  doc' = [doc EXCEPT !.pc = "built", !.cell_dict = filtered,
                              !.calc_doc = calc]
    /\ UNCHANGED <<runVars, firstTools, merge, cdir, snapshot, generic>>

NextDoc == BuildCalcDoc

SpecDoc == InitDoc /\ [][NextDoc]_vars

(***************************************************************************)
(* SpecKeys: what the steps of relax do to calc_doc (lines 525-609), on    *)
(* every calc_doc and every scraped opti_dict within the bounds.  The      *)
(* value of a key is written as where it came from: calc (calc_doc on      *)
(* entering relax), scraped (castep2dict), out_cell (<seed>-out.cell) or   *)
(* fixed (the literal of line 548).                                        *)
(***************************************************************************)

\* line 553
KeysToRemove ==
    {"kpoints_mp_spacing", "kpoints_mp_grid", "species_pot", "sedc_apply",
     "sedc_scheme"}

\* the keys of calc_doc and opti_dict: the keys to remove, the key the
\* loop tests, the key the remedy deletes, and the key line 596 sets
MergeKeys == KeysToRemove \cup {"optimised", "symmetry_generate", "lattice_cart"}

ScrubNothing(opti) == opti

\* lines 554-556: del opti_dict[key] for the keys to remove
Scrub(opti) == [k \in DOMAIN opti \ KeysToRemove |-> opti[k]]

\* _remedy_castep_symmetry_error, lines 1104-1109, on the keys of MergeKeys
RemedySymmetry(d) == [k \in DOMAIN d \ {"symmetry_generate"} |-> d[k]]

\* castep2dict, line 525, when it returns a dictionary: it holds
\* 'optimised' and up to MaxOptiKeys other keys
OptiDicts ==
    UNION {[ks \cup {"optimised"} -> {"scraped"}] :
              ks \in {s \in SUBSET (MergeKeys \ {"optimised"}) :
                         Cardinality(s) <= MaxOptiKeys}}

\* the ways the post-processing of lines 558-600 ends, which depend on
\* opti_dict['optimised'], reopt, rerun and the position in the list
PostProcess == {"break", "raise", "next", "next_out_cell"}

InitKeys ==
    /\ \E ks \in {s \in SUBSET (MergeKeys \ {"optimised"}) :
                     Cardinality(s) <= MaxCalcKeys} :
         \E calc \in [ks -> {"calc"}] :
            merge = [pc |-> "loop", calc_in |-> calc, calc_doc |-> calc,
                     steps |-> 0, num_retries |-> 0, deleted |-> FALSE,
                     raised |-> "none"]
    /\ doc = Unused /\ cdir = Unused /\ snapshot = Unused /\ generic = Unused
    /\ IdleFirst
    /\ IdleRun

\* lines 547-609 for a step that has not raised at lines 541 and 546:
\* opti is opti_dict, post the way the post-processing ends when the step
\* has no remedy.  deleted records that line 556 deleted a key that
\* calc_doc holds.
MergeOptiDict(remedy, opti, post) ==
    LET \* 553-556
        opti2 == Scrub(opti)
        \* 590-596
        opti3 == IF ~remedy /\ post = "next_out_cell"
                 THEN DictUpdate(opti2, [k \in {"lattice_cart"} |-> "out_cell"])
                 ELSE opti2
        \* 604
        merged == DictUpdate(merge.calc_doc, opti3)
        deleted == DOMAIN opti \cap KeysToRemove \cap DOMAIN merge.calc_doc # {}
    IN  IF ~remedy /\ post = "raise"                                \* 582
        THEN [merge EXCEPT !.pc = "ended", !.raised = "CalculationError",
                           !.steps = @ + 1, !.deleted = deleted]
        ELSE IF ~remedy /\ post = "break"                           \* 576
        THEN [merge EXCEPT !.pc = "ended", !.steps = @ + 1,
                           !.deleted = deleted]
        ELSE IF remedy                                              \* 604-609
        THEN [merge EXCEPT !.calc_doc = RemedySymmetry(merged),
                           !.num_retries = @ + 1, !.steps = @ + 1,
                           !.deleted = deleted]
        ELSE [merge EXCEPT !.calc_doc = merged, !.steps = @ + 1,    \* 604
                           !.deleted = deleted]

\* lines 525-609 for one exited child
MergeStep ==
    /\ merge.pc = "loop"
    /\ merge.steps < MaxMergeSteps
    /\ \E errors_present \in BOOLEAN, remedy \in BOOLEAN, parsed \in BOOLEAN :
         IF \/ errors_present /\ ~(remedy /\ RetryAllowed(merge.num_retries))
            \/ ~parsed /\ ~remedy                                   \* 541, 546
         THEN merge' = [merge EXCEPT !.pc = "ended",
                                     !.raised = "CalculationError",
                                     !.steps = @ + 1]
         ELSE \E opti \in IF parsed THEN OptiDicts
                          ELSE {[k \in {"optimised"} |-> "fixed"]},  \* 547-548
                 post \in IF remedy THEN {"skipped"} ELSE PostProcess :
                merge' = MergeOptiDict(remedy, opti, post)
    /\ UNCHANGED <<runVars, firstTools, doc, cdir, snapshot, generic>>

NextKeys == MergeStep

SpecKeys == InitKeys /\ [][NextKeys]_vars

(***************************************************************************)
(* SpecDir: remove_compute_dir_if_finished (lines 1432-1474) called twice  *)
(* on every state of the compute directory and of the symlink to it.  The  *)
(* entries of the directory are told apart by what the code does with      *)
(* them: a .res, a .castep, another regular file, a file whose name begins *)
(* with a dot (which the pattern '/*' does not match) and a subdirectory.  *)
(***************************************************************************)

DirEntries == {"res", "castep", "other", "hidden", "subdir"}

\* glob.glob(compute_dir + '/*'), line 1449
GlobStar(files) == files \ {"hidden"}

\* os.path.isfile(fname), line 1461
IsRegularFile(f) == f # "subdir"

HoldsResOnly(files) == "res" \in files

\* lines 1452-1456: a name ends with .res or .castep
HoldsCalculation(files) == files \cap {"res", "castep"} # {}

\* lines 1446-1474 on the file system fs = [dir, files, link]: the file
\* system after the call, the value returned and the exception raised
\* (os.rmdir raises OSError on a directory that is not empty)
RemoveComputeDir(fs) ==
    IF ~fs.dir
    THEN [fs |-> fs, ret |-> FALSE, raised |-> "none"]               \* 1446-1447
    ELSE IF HoldsCalculation(GlobStar(fs.files))
    THEN [fs |-> fs, ret |-> FALSE, raised |-> "none"]               \* 1452-1456
    ELSE LET left == {f \in fs.files :
                         ~(f \in GlobStar(fs.files) /\ IsRegularFile(f))}
         IN  IF left # {}
             THEN [fs |-> [fs EXCEPT !.files = left], ret |-> FALSE,
                   raised |-> "OSError"]                             \* 1468
             ELSE [fs |-> [dir |-> FALSE, files |-> {}, link |-> FALSE],
                   ret |-> TRUE, raised |-> "none"]                  \* 1466-1474

InitDir ==
    /\ \E d \in BOOLEAN, files \in SUBSET DirEntries, l \in BOOLEAN :
         /\ ~d => files = {}
         /\ cdir = [pc |-> "calls", calls |-> 0,
                    fs |-> [dir |-> d, files |-> files, link |-> l],
                    initial |-> [dir |-> d, files |-> files, link |-> l],
                    first |-> [dir |-> d, files |-> files, link |-> l],
                    ret |-> FALSE, raised |-> "none"]
    /\ doc = Unused /\ merge = Unused /\ snapshot = Unused /\ generic = Unused
    /\ IdleFirst
    /\ IdleRun

\* one call; first keeps the file system the first call left
CallRemoveComputeDir ==
    /\ cdir.pc = "calls"
    /\ cdir.calls < MaxCleanupCalls
    /\ LET r == RemoveComputeDir(cdir.fs) IN
       cdir' = [cdir EXCEPT !.calls = @ + 1, !.fs = r.fs,
                            !.first = IF cdir.calls = 0 THEN r.fs ELSE @,
                            !.ret = r.ret, !.raised = r.raised]
    /\ UNCHANGED <<runVars, firstTools, doc, merge, snapshot, generic>>

NextDir == CallRemoveComputeDir

SpecDir == InitDir /\ [][NextDir]_vars

(***************************************************************************)
(* SpecSnap: cp_to_input (lines 1193-1222) called at any time of the life  *)
(* of a seed: in the first run of a task and after it, with and without    *)
(* glob_files, before and after <seed>.res is rewritten, and again by a    *)
(* new task for the same seed.  input/ maps each name it holds to the      *)
(* version of the file that was copied.                                    *)
(***************************************************************************)

\* the entries of root the snapshot is explored on: files of the seed, a
\* file of another seed, and a directory whose name begins with the seed
SnapFiles ==
    {OwnSeed \o ResExt, OwnSeed \o LockExt, OwnSeed \o CastepExt,
     <<"b">> \o ResExt}

SnapDirs == {OwnSeed \o <<"_dir">>}

\* lines 1210-1217: the names the glob branch hands to shutil.copy2: those
\* that match, do not end with .lock, and are not regular files
GlobCopied(seed, files, dirs) ==
    { f \in Glob(seed, <<>>, files \cup dirs) :
        ~EndsWith(f, <<".", "lock">>) /\ f \notin files }

\* lines 1204-1222: input/ after the call, and the exception raised
\* (shutil.copy2 raises IsADirectoryError on a directory); version is the
\* version of the files in root
CpToInputDir(first_run, seed, glob_files, files, dirs, input, version) ==
    IF ~first_run
    THEN [input |-> input, raised |-> "none"]                        \* 1204
    ELSE IF glob_files
    THEN IF GlobCopied(seed, files, dirs) # {}
         THEN [input |-> input, raised |-> "IsADirectoryError"]
         ELSE [input |-> input, raised |-> "none"]
    ELSE LET copied == { f \in CpToInput(seed, FALSE, files) :
                            f \notin DOMAIN input }                  \* 1221
         IN  [input |-> [f \in DOMAIN input \cup copied |->
                            IF f \in copied THEN version ELSE input[f]],
              raised |-> "none"]

InitSnap ==
    /\ \E files \in SUBSET SnapFiles, dirs \in SUBSET SnapDirs,
          kept \in SUBSET {OwnSeed \o ResExt} :
         snapshot = [pc |-> "run", first_run |-> TRUE, files |-> files,
                     dirs |-> dirs, version |-> 1,
                     input |-> [f \in kept |-> 0],
                     calls |-> 0, glob_files |-> FALSE, in_first_run |-> FALSE,
                     raised |-> "none"]
    /\ doc = Unused /\ merge = Unused /\ cdir = Unused /\ generic = Unused
    /\ IdleFirst
    /\ IdleRun

\* cp_to_input(seed, glob_files=...), as called at lines 417 and 1276
SnapCpToInput ==
    /\ snapshot.pc = "run"
    /\ snapshot.calls < MaxSnapCalls
    /\ \E glob_files \in BOOLEAN :
         LET r == CpToInputDir(snapshot.first_run, OwnSeed, glob_files,
                               snapshot.files, snapshot.dirs, snapshot.input,
                               snapshot.version)
         IN  snapshot' = [snapshot EXCEPT !.input = r.input,
                                          !.raised = r.raised,
                                          !.calls = @ + 1,
                                          !.glob_files = glob_files,
                                          !.in_first_run = snapshot.first_run]
    /\ UNCHANGED <<runVars, firstTools, doc, merge, cdir, generic>>

\* lines 385, 439 and 443: the first run of the task is over
SnapEndFirstRun ==
    /\ snapshot.pc = "run"
    /\ snapshot.first_run
    /\ snapshot' = [snapshot EXCEPT !.first_run = FALSE]
    /\ UNCHANGED <<runVars, firstTools, doc, merge, cdir, generic>>

\* lines 1275 and 1368-1374: <seed>.res is written anew
SnapRewriteRes ==
    /\ snapshot.pc = "run"
    /\ snapshot.version < MaxResVersions
    /\ snapshot' = [snapshot EXCEPT !.version = @ + 1,
                                    !.files = @ \cup {OwnSeed \o ResExt}]
    /\ UNCHANGED <<runVars, firstTools, doc, merge, cdir, generic>>

\* line 129: a new ComputeTask is constructed for the seed
SnapNewTask ==
    /\ snapshot.pc = "run"
    /\ ~snapshot.first_run
    /\ snapshot' = [snapshot EXCEPT !.first_run = TRUE]
    /\ UNCHANGED <<runVars, firstTools, doc, merge, cdir, generic>>

NextSnap == SnapCpToInput \/ SnapEndFirstRun \/ SnapRewriteRes \/ SnapNewTask

SpecSnap == InitSnap /\ [][NextSnap]_vars

(***************************************************************************)
(* SpecGeneric: ComputeTask.__init__ in generic mode: run_generic (lines   *)
(* 397-447) and the handlers of __init__ (lines 249-263), on input names   *)
(* with no, one and two dots, for every way the child ends.  No output     *)
(* queue is configured.                                                    *)
(***************************************************************************)

\* the names of the input file: 'file', 'file.in' and 'a.file.in'
GenericNames ==
    {<<"file">>, <<"file", ".", "in">>, <<"a", ".", "file", ".", "in">>}

\* lines 419-421: self.seed = seed.split('.')[-2] when the name has a dot
GenericSeed(name) ==
    IF \E i \in 1..Len(name) : name[i] = "."
    THEN <<name[Len(name) - 2]>>
    ELSE name

\* the files the child may write: <name>.out and <self.seed>.log
GenericOutputs(name) ==
    {name \o <<".", "out">>, GenericSeed(name) \o <<".", "log">>}

\* how the launch and the child end: Popen raises, the child exits with a
\* non-zero code, writes to stderr, or ends cleanly (lines 427-429)
ChildEnds == {"launch_exception", "nonzero", "stderr", "clean"}

\* lines 429-432: the child's end raises CalculationError
GenericFailed(how) == how \in {"nonzero", "stderr"}

\* the files of fs that a call of mv_to_bad(seed) takes to bad_castep/
\* and the ones left, as [root, bad]
MvToBadState(seed, st) ==
    LET gone == MvToBadFiles(seed, st.root)
    IN  [st EXCEPT !.root = @ \ gone, !.bad = @ \cup gone]

\* _finalise_result, lines 1383-1410, in generic mode: self.res_dict was
\* never set, so success is False (lines 1391-1394); mv_to_bad(self.seed)
\* and tidy_up(self.seed)
GenericFinalise(seed, st) ==
    LET st1 == MvToBadState(seed, st)
    IN  [st1 EXCEPT !.root = @ \ TidyUpFiles(seed, st1.root)]

\* run_generic from line 417 on, and the handlers of __init__: st is
\* [root, bad, completed], how the way the child ends
RunGeneric(name, how, st) ==
    IF how = "clean"
    THEN \* 434-440: mv_to_completed(seed, keep=True), return True
         LET gone == MvToCompletedFiles(name, TRUE, st.root)
             f1 == st.root \ (Glob(name, <<"_bak">>, st.root)
                               \cup Glob(name, <<".", "lock">>, st.root))
             moved == Glob(name \o <<".">>, <<>>, f1)
                      \cup Glob(name \o OutCellExt, <<>>, f1)
         IN  [st |-> [st EXCEPT !.root = @ \ gone, !.completed = @ \cup moved],
              success |-> "True", propagated |-> "none"]
    ELSE \* 442-447: mv_to_bad(seed), raise err
         LET st1 == MvToBadState(name, st) IN
         IF GenericFailed(how)
         THEN \* 249-253: CalculationError is followed by _finalise_result
              [st |-> GenericFinalise(GenericSeed(name), st1),
               success |-> "False", propagated |-> "CalculationError"]
         ELSE \* 261-263
              [st |-> st1, success |-> "None", propagated |-> "OSError"]

InitGeneric ==
    /\ \E name \in GenericNames, extra \in SUBSET {<<"other", ".", "in">>, <<"other", ".", "out">>} :
         generic = [pc |-> "start", name |-> name, how |-> "none",
                    st |-> [root |-> {name} \cup extra, bad |-> {},
                            completed |-> {}],
                    written |-> {}, success |-> "None", propagated |-> "none"]
    /\ doc = Unused /\ merge = Unused /\ cdir = Unused /\ snapshot = Unused
    /\ IdleFirst
    /\ IdleRun

\* lines 417-426: cp_to_input (which copies no regular file with
\* glob_files) and run_command; Popen may raise
GenericLaunch ==
    /\ generic.pc = "start"
    /\ \/ generic' = [generic EXCEPT !.pc = "running"]
       \/ LET r == RunGeneric(generic.name, "launch_exception", generic.st) IN
          generic' = [generic EXCEPT !.pc = "done", !.how = "launch_exception",
                                     !.st = r.st, !.success = r.success,
                                     !.propagated = r.propagated]
    /\ UNCHANGED <<runVars, firstTools, doc, merge, cdir, snapshot>>

\* the child writes one of its output files
GenericChildWrites ==
    /\ generic.pc = "running"
    /\ \E f \in GenericOutputs(generic.name) \ generic.written :
         generic' = [generic EXCEPT !.written = @ \cup {f},
                                    !.st.root = @ \cup {f}]
    /\ UNCHANGED <<runVars, firstTools, doc, merge, cdir, snapshot>>

\* lines 427-447 and __init__ lines 249-263: communicate() returns
GenericChildExit ==
    /\ generic.pc = "running"
    /\ \E how \in ChildEnds \ {"launch_exception"} :
         LET r == RunGeneric(generic.name, how, generic.st) IN
         generic' = [generic EXCEPT !.pc = "done", !.how = how,
                                    !.st = r.st, !.success = r.success,
                                    !.propagated = r.propagated]
    /\ UNCHANGED <<runVars, firstTools, doc, merge, cdir, snapshot>>

NextGeneric == GenericLaunch \/ GenericChildWrites \/ GenericChildExit

SpecGeneric == InitGeneric /\ [][NextGeneric]_vars

(***************************************************************************)
(* The properties.                                                         *)
(***************************************************************************)

\* C1: lock liveness.  When the driver has ended, on whatever path, the
\* lock file does not exist or the seed's files have been moved to
\* completed/ or bad_castep/.
C1_LockLiveness ==
    (pc = "skipped" \/ (pc = "done" /\ outcome # "MaxMemoryEstimateExceeded"))
        => (~lock \/ where \in {"completed", "bad_castep"})

\* C2: concurrent claim.  No res file is being relaxed by two workers of
\* the batch at once: of the workers that race on a seed, one starts it.
C2_NoDoubleStart ==
    \A v, w \in Workers :
        (v # w /\ wpc[v] = "relax" /\ wpc[w] = "relax")
            => res_list[widx[v]] # res_list[widx[w]]

\* C3: no structure is lost.  When every worker has completed its scan,
\* every res file of the folder has been started; and a worker that has
\* completed a scan begun after the claimer of a seed died has seen that
\* seed started again.
C3_NoStructureLost ==
    /\ (\A w \in Workers : wpc[w] = "done")
           => \A r \in DOMAIN started : started[r] >= 1
    /\ \A w \in Workers : wpc[w] = "done" => seen[w] \subseteq reclaimed

\* C4: retry cap.  Across one call of relax the remedy is applied to the
\* live calc_doc at most max_num_retries times.
C4_RetryCap == remedies <= max_num_retries

LastLaunch == launches[Len(launches)]

\* C5 as stated: the child launched after a remedied step uses the schedule
\* index of the step that failed.
C5_RetryKeepsIndex ==
    (pc = "poll" /\ prev.remedied) => LastLaunch.ind = prev.ind

\* C5, amended: a remedied retry consumes a scheduled step.  The child
\* launched after a remedied step uses the next schedule index, with the
\* num_iter of that element (fine_iter while rerun is set under reopt), and
\* after a remedy at the last scheduled step no further child is launched
\* and the driver ends.
C5_RetryAdvances ==
    /\ (pc = "poll" /\ prev.remedied)
           => /\ LastLaunch.ind = prev.ind + 1
              /\ LastLaunch.num_iter =
                     IF reopt /\ rerun THEN inp.fine_iter
                     ELSE setup.list[prev.ind + 1]
    /\ (prev.remedied /\ prev.ind = Len(setup.list))
           => (pc = "done" /\ Len(launches) = prev.ind)

\* a child is being polled that was launched after a remedied step
C5_Witness == pc = "poll" /\ prev.remedied /\ prev.ind >= 1

\* C6: a run that ends with CalculationError has moved the seed's files to
\* bad_castep/, never to completed/, and has removed the lock.
C6_FailedGoesToBad ==
    (pc = "done" /\ outcome = "CalculationError")
        => (where = "bad_castep" /\ ~lock)

EffRoughIter(i) ==
    IF i.geom_method = "tpsd" /\ i.rough_iter < 3 THEN 3 ELSE i.rough_iter

RemainingIter(i) == i.geom_max_iter - (IF i.has_geom_iter THEN i.geom_iter ELSE 0)

\* C7 as stated: a schedule that was returned sums to at most
\* max_iter + fine_iter.
C7_SumBound ==
    setup.raised = "none"
        => Sum(setup.list) <= RemainingIter(inp) + inp.fine_iter

\* C7, amended: the bound holds whenever the rough steps alone stay within
\* it (rough * rough_iter <= max_iter + fine_iter, rough_iter as raised for
\* tpsd); otherwise the schedule is the rough steps only and its sum is
\* rough * rough_iter.
C7_SumBoundWhenRoughFits ==
    setup.raised = "none" =>
        LET bound == RemainingIter(inp) + inp.fine_iter
            roughs == inp.rough * EffRoughIter(inp)
        IN  /\ roughs <= bound => Sum(setup.list) <= bound
            /\ roughs > bound => Sum(setup.list) = roughs

\* a returned schedule with fine steps whose sum exceeds max_iter
C7_Witness ==
    /\ setup.raised = "none"
    /\ Len(setup.list) > inp.rough
    /\ Sum(setup.list) > RemainingIter(inp)

\* the least n with n * f >= r, for r >= 0 and f >= 1
LeastCover(r, f) == CHOOSE n \in 0..r : n * f >= r /\ \A m \in 0..(n - 1) : m * f < r

\* the shape C8 describes
ScheduleShape(i) ==
    LET r == RemainingIter(i) - i.rough * EffRoughIter(i)
    IN  [k \in 1..i.rough |-> EffRoughIter(i)] \o
        (IF r >= i.fine_iter
         THEN [k \in 1..LeastCover(r, i.fine_iter) |-> i.fine_iter]
         ELSE IF r > 0 THEN <<r>> ELSE <<>>)

\* C8: schedule shape.  The list built is rough copies of rough_iter (3 at
\* least under tpsd) followed by the fine steps covering the residual; the
\* scenario's list is [2,2,2,2,20,20,20,20,20].
C8_ScheduleShape ==
    /\ setup.raised = "none" => setup.list = ScheduleShape(inp)
    /\ setup.raised = "CriticalError" => ScheduleShape(inp) = <<>>
    /\ (setup.raised # "pending" /\ inp = HappyRelaxInput)
           => setup.list = <<2, 2, 2, 2, 20, 20, 20, 20, 20>>

\* the scenario's schedule has been built and its first child launched
C8_Witness ==
    /\ inp = HappyRelaxInput
    /\ setup.raised = "none"
    /\ Len(launches) = 1

C10_ExhaustedBudget ==
    (setup.raised # "pending" /\ inp.has_geom_iter
         /\ inp.geom_iter >= inp.geom_max_iter)
        => (setup.raised = "CalculationError" /\ launches = <<>>)

\* C10, amended: the construction raises CalculationError, and no child is
\* launched, exactly when geom_iter > geom_max_iter; a structure with
\* geom_iter = geom_max_iter is scheduled like any other.
C10_ExceededBudget ==
    setup.raised # "pending" =>
        /\ (inp.has_geom_iter /\ inp.geom_iter > inp.geom_max_iter)
               => /\ setup.raised = "CalculationError"
                  /\ launches = <<>>
                  /\ pc = "done" /\ outcome = "CalculationError"
        /\ ~(inp.has_geom_iter /\ inp.geom_iter > inp.geom_max_iter)
               => setup.raised # "CalculationError"

\* a structure over its budget has been moved to bad_castep
C10_Witness ==
    /\ inp.has_geom_iter /\ inp.geom_iter > inp.geom_max_iter
    /\ pc = "done"
    /\ where = "bad_castep"

\* C11: walltime leaves the seed re-claimable.  When the run has ended with
\* WalltimeError the lock file does not exist, the seed's files, those
\* written in compute_dir included, are in root, and nothing has been moved
\* to completed/ or bad_castep/.
C11_WalltimeReclaimable ==
    outcome = "WalltimeError"
        => /\ ~lock
           /\ where = "root"
           /\ \A k \in FileKinds : artifacts[k] \in {"absent", "root"}

\* C12: walltime termination ordering.  On the walltime path the lock is
\* never absent while the child the driver launched is still running: the
\* driver waits for the child to exit before it removes the lock.
C12_TerminateBeforeUnlock ==
    outcome = "WalltimeError" => ~(~lock /\ process \in {"running", "terminated"})

\* C13: walltime rule.  With start_time and max_walltime set, a poll of a
\* running child raises WalltimeError exactly when the elapsed time exceeds
\* max_walltime - 5 * polltime; with max_walltime = 60 and polltime = 5 the
\* child is terminated at the first poll with elapsed time in (35, 40].
C13_WalltimeRule ==
    [][(pc = "poll" /\ walltime_set /\ start_time_set) =>
          /\ outcome' = "WalltimeError" => now > max_walltime - 5 * polltime
          /\ (pc' = "poll" /\ now' # now) => ~(now > max_walltime - 5 * polltime)
          /\ (outcome' = "WalltimeError" /\ max_walltime = 60 /\ polltime = 5)
                 => (35 < now /\ now <= 40)]_vars

\* C14: deadline safety.  With the walltime check enabled, no poll at which
\* the elapsed time has reached max_walltime lets the child go on running.
C14_DeadlineSafety ==
    [][(pc = "poll" /\ walltime_set /\ start_time_set
            /\ pc' = "poll" /\ now' # now)
          => now < max_walltime]_vars

\* C15: input validation of polling.  A configuration with
\* polltime >= max_walltime / 5 is rejected before any child is launched.
C15_PolltimeValidated ==
    (walltime_set /\ start_time_set /\ 5 * polltime >= max_walltime)
        => launches = <<>>

ClaimedEstimate(m) ==
    m.estimated_mem_MB * (IF m.ncores = 0 THEN 1 ELSE m.ncores)
                       * (IF m.nnodes = 0 THEN 1 ELSE m.nnodes)

\* C17: memcheck gate.  With memcheck enabled, if the estimate is at least
\* 0.9 * maxmem, equality included, or the dryrun reports no estimate, no
\* full child is launched.
C17_MemcheckGate ==
    (mem.memcheck /\ (~mem.reported \/ 10 * ClaimedEstimate(mem) >= 9 * mem.maxmem))
        => launches = <<>>

C19_ReoptGate ==
    (pc = "done" /\ outcome = "success")
        => (prev.opt /\ (reopt => prev.opt_before))

\* the children launched so far are the first steps of the schedule, in order
InScheduleOrder ==
    \A k \in 1..Len(launches) :
        launches[k] = [ind |-> k, num_iter |-> setup.list[k]]

\* C20: happy relax.  With reopt = false and no errors the children are
\* launched in schedule order, and relax stops at the first step whose
\* output reports optimised = true: if that is the k-th one, k children were
\* launched, the files are in completed/, the lock is gone and the result
\* is success (k = 2 in the scenario).
C20_HappyRelax ==
    /\ (~reopt /\ prev.clean) => InScheduleOrder
    /\ (~reopt /\ prev.clean /\ prev.opt)
           => /\ pc = "done" /\ outcome = "success"
              /\ where = "completed" /\ ~lock
              /\ Len(launches) = prev.ind
              /\ \A k \in FileKinds : artifacts[k] \in {"absent", "moved"}

\* the scenario: the second child of the default schedule reported
\* optimised = true
C20_Witness ==
    /\ inp = HappyRelaxInput
    /\ ~reopt /\ prev.clean /\ prev.opt
    /\ Len(launches) = 2
    /\ where = "completed"

\* the last scheduled step has run
LastStepRan ==
    /\ setup.raised = "none"
    /\ prev.ind >= 1
    /\ prev.ind = Len(setup.list)

\* the step that ended last reached true success: it reported optimised =
\* true without a remedy, and under reopt the step before it did as well
TrueSuccess == prev.opt /\ ~prev.remedied /\ (reopt => prev.opt_before)

\* C21: schedule exhaustion.  When the last scheduled step has run without
\* reaching true success, relax has raised CalculationError and the seed is
\* in bad_castep/.
C21_ScheduleExhaustion ==
    (LastStepRan /\ ~TrueSuccess)
        => /\ pc = "done"
           /\ outcome = "CalculationError"
           /\ where = "bad_castep"

\* the error kinds of the library that the constructor can end with
ErrorKinds ==
    {"CalculationError", "MaxMemoryEstimateExceeded", "CriticalError",
     "InputError", "WalltimeError"}

\* C23 as stated: CalculationError and MaxMemoryEstimateExceeded are
\* surfaced through the success flag and do not leave the constructor,
\* every other error kind does.
C23_SurfacedNotPropagated ==
    pc \in {"done", "skipped"}
        => /\ outcome \in {"CalculationError", "MaxMemoryEstimateExceeded"}
                  => propagated = "none"
           /\ outcome \in ErrorKinds \ {"CalculationError", "MaxMemoryEstimateExceeded"}
                  => propagated = outcome

\* C23: error surfacing.  Every error kind leaves the constructor as an
\* exception; CalculationError does so after self.success was set to False
\* and the files were finalised, the other kinds leave self.success None.
\* Without an error nothing is raised and self.success is the result.
C23_ErrorsPropagate ==
    pc \in {"done", "skipped"}
        => /\ outcome \in ErrorKinds => propagated = outcome
           /\ outcome = "CalculationError"
                  => (self_success = "False" /\ where \in {"completed", "bad_castep"})
           /\ outcome \in ErrorKinds \ {"CalculationError"} => self_success = "None"
           /\ outcome = "success" => (self_success = "True" /\ propagated = "none")
           /\ outcome = "failed" => (self_success = "False" /\ propagated = "none")

\* a run that launched a child has ended with CalculationError
C23_Witness ==
    /\ pc = "done"
    /\ outcome = "CalculationError"
    /\ propagated = "CalculationError"
    /\ self_success = "False"
    /\ launches # <<>>

\* C25: cwd restoration.  When run_castep has been left by a driver that
\* had changed into its compute directory, the working directory is root
\* again and the compute-dir cleanup was called.
C25_CwdRestored ==
    (pc = "done" /\ compute_dir /\ setup.raised # "pending")
        => (cwd = "root" /\ cleanup_called)

\* C22: convergence sweep.  When run_convergence_tests has ended, every
\* listed value was run by one scf call, it has returned, and its value is
\* true iff some sub-call succeeded; a failed sub-call is in bad_castep/ and
\* the successful ones are in their completed directory.
C22_ConvergenceSweep ==
    conv.pc \in {"returned", "raised"}
        => /\ Len(conv.moved) = Len(ConvValues(conv))
           /\ conv.pc = "returned"
           /\ conv.result <=> (\E k \in DOMAIN ConvValues(conv) : ConvValues(conv)[k])
           /\ \A k \in DOMAIN conv.moved :
                conv.moved[k] = IF ConvValues(conv)[k]
                                THEN ConvCompletedDir(conv, k) ELSE "bad_castep"

\* C24: exclusive ownership.  No operation of the driver for a seed reads,
\* moves or deletes a file of the other seed of the root, whether or not
\* the driver's seed is a prefix of the other.
C24_ExclusiveOwnership == own.touched \cap FilesOf(own.other) = {}

\* the positions of the template where a token begins and where it ends
TokenStarts(t) ==
    { k \in DOMAIN t : t[k] # " " /\ (k = 1 \/ t[k - 1] = " ") }

TokenEnds(t) ==
    { k \in DOMAIN t : t[k] # " " /\ (k = Len(t) \/ t[k + 1] = " ") }

\* the j-th token of the template, counted from the left
Token(t, j) ==
    LET s == CHOOSE k \in TokenStarts(t) :
                 Cardinality({ m \in TokenStarts(t) : m <= k }) = j
        e == CHOOSE k \in TokenEnds(t) :
                 Cardinality({ m \in TokenEnds(t) : m <= k }) = j
    IN  SubSeq(t, s, e)

NotSeedPiece(x) == x # "$seed"

NotOfArgvSeed(x) == \A k \in DOMAIN argv.seed : x # argv.seed[k]

\* the element is the token with every $seed replaced by the seed: no
\* placeholder is left, each placeholder has grown to the seed's length,
\* and the other pieces are unchanged and in place
IsReplaced(elem, token) ==
    /\ ~HasSeed(elem)
    /\ Len(elem) = Len(token)
           + Cardinality({ k \in DOMAIN token : token[k] = "$seed" })
             * (Len(argv.seed) - 1)
    /\ SelectSeq(elem, NotOfArgvSeed) = SelectSeq(token, NotSeedPiece)
    /\ \A k \in DOMAIN token :
         token[k] = "$seed" =>
           LET before == SubSeq(token, 1, k - 1)
               at == Len(SelectSeq(before, NotSeedPiece))
                     + (k - 1 - Len(SelectSeq(before, NotSeedPiece))) * Len(argv.seed)
           IN  SubSeq(elem, at + 1, at + Len(argv.seed)) = argv.seed

\* C26: argv parsing.  The command is the template's whitespace-separated
\* tokens with every $seed replaced by the seed; the seed is appended as one
\* more element iff no token held $seed, so the command has len(T.split())
\* elements or one more.
C26_ArgvParsing ==
    argv.pc = "parsed"
        => LET t == argv.executable
               n == Cardinality(TokenStarts(t))
               found == \E k \in DOMAIN t : t[k] = "$seed"
           IN  /\ Len(argv.command) = IF found THEN n ELSE n + 1
               /\ \A j \in 1..n : IsReplaced(argv.command[j], Token(t, j))
               /\ ~found => argv.command[n + 1] = argv.seed

\* a template of two tokens, one of them with $seed, has been parsed for a
\* seed of two characters
C26_Witness ==
    /\ argv.pc = "parsed"
    /\ Len(argv.seed) = 2
    /\ Cardinality(TokenStarts(argv.executable)) = 2
    /\ \E k \in DOMAIN argv.executable : argv.executable[k] = "$seed"
    /\ Len(argv.command) = 2

\* the prefix tabulated for a single node without a remote node and more
\* than one core, and for more than one node
TabulatedPrefix(m) ==
    LET cores == ToString(m.ncores)
        total == ToString(m.ncores * m.nnodes)
        nodes == ToString(m.nnodes)
    IN  IF m.nnodes <= 1
        THEN CASE m.library = "archer" -> <<"aprun", "-n", cores>>
               [] m.library = "slurm" -> <<"srun", "--exclusive", "-N", "1", "-n", cores>>
               [] m.library = "intel" -> <<"mpirun", "-n", cores>>
               [] OTHER -> <<"nice", "-n", "15", "mpirun", "-n", cores>>
        ELSE CASE m.library = "archer"
                    -> <<"aprun", "-n", total, "-N", cores, "-S", "12", "-d", "1">>
               [] m.library = "slurm" -> <<"srun", "--exclusive", "-N", nodes, "-n", total>>
               [] m.library = "intel" -> <<"mpirun", "-n", total, "-ppn", cores>>
               [] OTHER -> <<"mpirun", "-n", total, "-npernode", cores>>

\* C27: MPI wrapping table.  The command that is launched is prefixed as
\* tabulated: nice for one core on one node without a remote node, ssh and
\* mpirun with a remote node on one node, and otherwise by the library.
C27_MpiWrappingTable ==
    mpi.pc = "launched"
        => mpi.prefix =
             IF mpi.nnodes <= 1 /\ mpi.node
             THEN <<"ssh", "node", "cd", "cwd;", "mpirun", "-n", ToString(mpi.ncores)>>
             ELSE IF mpi.nnodes <= 1 /\ mpi.ncores = 1 THEN <<"nice", "-n", "15">>
             ELSE TabulatedPrefix(mpi)

\* C28: MPI library selection.  When the library has been asked for,
\* detection was executed only if no flag was set; an asserted archer or
\* intel that detection contradicts gives CriticalError; an asserted slurm
\* is selected without error; without a flag the detected library is used.
C28_MpiLibrarySelection ==
    (mpi.pc \in {"launched", "raised"} /\ ReadsMpiLibrary(mpi))
        => LET guessed == DetectMpi(mpi.mpirun, mpi.aprun) IN
           /\ NumFlags(mpi) > 0 => mpi.detect_calls = 0
           /\ (NumFlags(mpi) = 1 /\ mpi.slurm)
                  => (mpi.raised = "none" /\ mpi.library = "slurm")
           /\ (NumFlags(mpi) = 1 /\ mpi.archer /\ guessed.version # "archer")
                  => mpi.raised = "CriticalError"
           /\ (NumFlags(mpi) = 1 /\ mpi.intel /\ guessed.version # "intel")
                  => mpi.raised = "CriticalError"
           /\ (NumFlags(mpi) = 0 /\ guessed.raised = "none")
                  => (mpi.raised = "none" /\ mpi.library = guessed.version)

\* floor(log2(n)) for n >= 1
RECURSIVE Log2Floor(_)
Log2Floor(n) == IF n <= 1 THEN 0 ELSE 1 + Log2Floor(n \div 2)

\* C29: exec self-test.  While the test goes on, every invocation so far
\* met 'not enough slots' and halved the cores; the test passes on 'CASTEP
\* version' and ends with CriticalError on 'not enough slots' at one core
\* and on any other output.  The cores are never below 1 and at most
\* floor(log2(cores)) + 1 invocations are made, after which the test has
\* ended.
C29_SelfTest ==
    selftest.pc \in {"test", "passed", "raised"}
        => /\ selftest.ncores >= 1
           /\ selftest.invocations <= Log2Floor(selftest.ncores0) + 1
           /\ selftest.pc = "test"
                  => /\ selftest.invocations > 0 => selftest.last = "slots"
                     /\ selftest.ncores = selftest.ncores0 \div (2 ^ selftest.invocations)
                     /\ selftest.invocations + Log2Floor(selftest.ncores)
                            = Log2Floor(selftest.ncores0)
           /\ selftest.pc = "passed"
                  => (selftest.last = "version" /\ selftest.raised = "none")
           /\ selftest.pc = "raised"
                  => /\ selftest.raised = "CriticalError"
                     /\ selftest.last \in {"notfound", "slots", "other"}
                     /\ selftest.last = "slots" => selftest.ncores = 1

\* the test was started with the most cores, met 'not enough slots' at
\* every invocation and has ended at one core after the most invocations
C29_Witness ==
    /\ selftest.pc = "raised"
    /\ selftest.ncores0 = MaxTestCores
    /\ selftest.last = "slots"
    /\ selftest.ncores = 1
    /\ selftest.invocations = Log2Floor(MaxTestCores) + 1

\* the file has a line with the work-around message
HasWorkaround(f) == \E k \in DOMAIN f.lines : f.lines[k] = "workaround"

\* the files that count: neither ending in opt_err nor ignored for the
\* work-around message
CountedErrFiles(files) ==
    { k \in DOMAIN files : ~files[k].opt_err /\ ~HasWorkaround(files[k]) }

\* C30: error classifier, work-around rule.  A file ending in opt_err is
\* not inspected; a file with the work-around line is deleted and adds
\* nothing to errors_present, to the message or to the remedy, wherever the
\* line stands: the result is that of the other files alone.
C30_WorkaroundIgnored ==
    scan.pc = "scanned"
        => LET counted == CountedErrFiles(scan.files) IN
           /\ scan.deleted = { k \in DOMAIN scan.files :
                                 ~scan.files[k].opt_err /\ HasWorkaround(scan.files[k]) }
           /\ scan.reported = counted
           /\ scan.errors_present <=> (scan.returncode # 0 \/ counted # {})
           /\ scan.remedy = "symmetry"
                  <=> \E k \in counted, n \in 1..MaxErrLines :
                        /\ n \in DOMAIN scan.files[k].lines
                        /\ scan.files[k].lines[n] = "symmetry"

\* C40: remedy implies error.  For every exit code and every set and line
\* order of err files, the classifier returns a remedy only together with
\* errors_present = TRUE, so that a remedy is never applied without the
\* retry-cap check.
C40_RemedyImpliesError ==
    scan.pc = "scanned" =>
        (scan.remedy # "none" => scan.errors_present)

\* C38: bounded launches.  In one call of relax at most len(schedule)
\* children are launched, whatever the steps give (optimised or not, errors,
\* remedies applied, reopt reruns); and relax ends, by return or by raise,
\* when every launched child exits.
C38_BoundedLaunches ==
    /\ [](Len(launches) <= Len(setup.list))
    /\ <>(pc = "done")

\* the whole list was used, one launch for each element, a remedy was
\* applied on the way, and relax has ended
C38_Witness ==
    /\ pc = "done"
    /\ remedies > 0
    /\ Len(launches) = Len(setup.list)
    /\ Len(launches) > 1

\* the step in which a test of the poll loop raises CalculationError on a
\* running child, which is sent terminate
OutputCheckStep ==
    /\ pc = "poll" /\ process = "running"
    /\ pc' = "done" /\ outcome' = "CalculationError"
    /\ process' = "terminated"

\* C36: missing or stale output.  While the child runs and more than
\* 3 * polltime has passed since its launch, a <seed>.castep that does not
\* exist or is older than the launch makes relax raise CalculationError:
\* the child is sent terminate and the seed is moved to bad_castep/.  The
\* tests do not raise while the elapsed time is at most 3 * polltime, and
\* they come before the walltime test of the same pass.
C36_OutputDetection ==
    [][/\ OutputCheckStep =>
            /\ OutputCheckRaises(proc_elapsed, polltime, castep)
            /\ where' = "bad_castep"
       /\ (pc = "poll" /\ OutputCheckRaises(proc_elapsed, polltime, castep)
              /\ pc' = "done" /\ process = "running" /\ process' # "exited")
           => OutputCheckStep]_vars

\* the same without the place the files are moved to
C36_OutputDetectionTiming ==
    [][/\ OutputCheckStep => OutputCheckRaises(proc_elapsed, polltime, castep)
       /\ (pc = "poll" /\ OutputCheckRaises(proc_elapsed, polltime, castep)
              /\ pc' = "done" /\ process = "running" /\ process' # "exited")
           => OutputCheckStep]_vars

\* C39: single result push.  With an output queue configured, a run whose
\* structure is finalised (its files are moved out of root) has put its
\* res_dict on the queue exactly once, on success and on CalculationError
\* alike.
C39_SinglePush ==
    where \in {"completed", "bad_castep"} => pushed = 1

\* relax has ended with WalltimeError after k >= 1 steps, all of which
\* completed without error
WalltimeAfterCleanSteps ==
    /\ outcome = "WalltimeError"
    /\ prev.ind >= 1
    /\ prev.clean

\* C34: walltime checkpoint.  When relax ends with WalltimeError after
\* k >= 1 steps that completed without error, <seed>.res holds the scraped
\* results of step k.
C34_WalltimeCheckpoint ==
    WalltimeAfterCleanSteps => prev.written = prev.ind

\* C34, amended: <seed>.res holds the results of step k only when step k
\* wrote them, which among steps without error only the steps of a reopt
\* run do that set rerun (optimised) or reset it (no longer optimised after
\* an optimised step); otherwise it holds what an earlier such step wrote,
\* or the structure relax started from.
C34_CheckpointWhenWritten ==
    WalltimeAfterCleanSteps =>
        /\ prev.written = prev.ind <=> (reopt /\ (prev.opt \/ prev.opt_before))
        /\ prev.written <= prev.ind
        /\ ~reopt => prev.written = 0

\* a walltime kill in the third step of a reopt run whose second step was
\* no longer optimised and wrote its results
C34_Witness ==
    /\ WalltimeAfterCleanSteps
    /\ reopt /\ prev.ind = 2 /\ prev.written = 2 /\ ~prev.opt

C37_RederivedKeys ==
    \A k \in KeysToRemove :
        /\ k \in DOMAIN merge.calc_doc <=> k \in DOMAIN merge.calc_in
        /\ k \in DOMAIN merge.calc_doc => merge.calc_doc[k] = "calc"

\* a remedied step has deleted species_pot from the scraped dictionary
\* and merged the rest into a calc_doc that holds species_pot, after a
\* step that merged a scraped lattice_cart
C37_Witness ==
    /\ merge.pc = "loop" /\ merge.num_retries > 0 /\ merge.steps = 2
    /\ merge.deleted
    /\ "species_pot" \in DOMAIN merge.calc_doc
    /\ merge.calc_doc["species_pot"] = "calc"
    /\ "lattice_cart" \in DOMAIN merge.calc_doc
    /\ merge.calc_doc["lattice_cart"] = "scraped"

\* C32: idempotent cleanup.  For every state of the compute directory and
\* of the symlink, a second call of remove_compute_dir_if_finished leaves
\* the file system as the first call left it; and when a .res or .castep
\* is in the directory, the directory, its files and the symlink are left
\* unchanged.
C32_IdempotentCleanup ==
    /\ cdir.pc = "calls" /\ cdir.calls >= 2 => cdir.fs = cdir.first
    /\ (cdir.pc = "calls" /\ cdir.calls >= 1
          /\ cdir.initial.files \cap {"res", "castep"} # {})
         => cdir.fs = cdir.initial /\ cdir.raised = "none"

\* a directory with only non-result files and its symlink were removed by
\* the first call, and the second call found nothing
C32_Witness ==
    /\ cdir.pc = "calls" /\ cdir.calls = 2
    /\ cdir.initial = [dir |-> TRUE, files |-> {"other"}, link |-> TRUE]
    /\ cdir.fs = [dir |-> FALSE, files |-> {}, link |-> FALSE]
    /\ cdir.ret = FALSE

\* what the snapshot is said to hold after a call in the first run
SnapshotExpected(seed, glob_files, files) ==
    IF glob_files
    THEN { f \in Glob(seed, <<>>, files) : ~EndsWith(f, <<".", "lock">>) }
    ELSE Existing(seed, {ResExt}, files)

\* C33: input snapshot.  A call of cp_to_input in the first run leaves in
\* input/ the seed's .res, or with glob_files every file that matches the
\* seed except lock files; a call after the first run leaves input/
\* unchanged; and a file that input/ holds is never overwritten.
C33_InputSnapshot ==
    [][/\ (snapshot'.calls # snapshot.calls /\ snapshot.first_run
             /\ snapshot'.raised = "none")
          => SnapshotExpected(OwnSeed, snapshot'.glob_files, snapshot.files)
                \subseteq DOMAIN snapshot'.input
       /\ ~snapshot.first_run /\ snapshot'.calls # snapshot.calls
          => snapshot'.input = snapshot.input
       /\ \A f \in DOMAIN snapshot.input :
             f \in DOMAIN snapshot'.input
             /\ snapshot'.input[f] = snapshot.input[f]]_vars

\* the same without the calls that pass glob_files
C33_InputSnapshotOfRes ==
    [][/\ (snapshot'.calls # snapshot.calls /\ snapshot.first_run
             /\ ~snapshot'.glob_files)
          => SnapshotExpected(OwnSeed, FALSE, snapshot.files)
                \subseteq DOMAIN snapshot'.input
       /\ ~snapshot.first_run /\ snapshot'.calls # snapshot.calls
          => snapshot'.input = snapshot.input
       /\ \A f \in DOMAIN snapshot.input :
             f \in DOMAIN snapshot'.input
             /\ snapshot'.input[f] = snapshot.input[f]]_vars

\* the files of the seed of a generic run: the input file and the files
\* named after it
GenericSeedFiles ==
    {generic.name} \cup generic.written

\* C35: generic mode.  One invocation; when the child exits with code 0
\* and empty stderr the seed's files are moved to completed/ and True is
\* returned; on any failure (non-zero exit, stderr, or an exception while
\* launching) the seed's files, the input file included, are moved to
\* bad_castep/ and the error is raised.
C35_GenericMode ==
    generic.pc = "done" =>
        IF generic.how = "clean"
        THEN /\ generic.success = "True" /\ generic.propagated = "none"
             /\ Glob(generic.name \o <<".">>, <<>>, generic.written)
                   \subseteq generic.st.completed
        ELSE /\ generic.propagated # "none"
             /\ GenericSeedFiles \subseteq generic.st.bad

\* the same, for the names with one dot and a child that was launched,
\* and without the files the child named after self.seed
C35_GenericModeOneDot ==
    (generic.pc = "done" /\ Len(generic.name) = 3
       /\ generic.how # "launch_exception") =>
        IF generic.how = "clean"
        THEN /\ generic.success = "True" /\ generic.propagated = "none"
             /\ Glob(generic.name \o <<".">>, <<>>, generic.written)
                   \subseteq generic.st.completed
        ELSE /\ generic.propagated = "CalculationError"
             /\ generic.name \in generic.st.bad
             /\ Glob(generic.name \o <<".">>, <<>>, generic.written)
                   \subseteq generic.st.bad

====
